---- MODULE Spec2Model ----
(***************************************************************************)
(* State-machine models of the LDD3 teaching drivers of this repository:   *)
(*   - scullpipe   (pipe.c:   scull_p_open/release/read/write/poll/fasync) *)
(*   - scullsingle (access.c: scull_s_open/release)                        *)
(*   - sculluid    (access.c: scull_u_open/release)                        *)
(*   - scullwuid   (access.c: scull_w_open/release)                        *)
(* Each device family has its own variables, its own initial predicate and *)
(* its own next-state relation; a family's specification leaves the other  *)
(* families' variables unchanged.                                          *)
(***************************************************************************)
EXTENDS Integers, Sequences, FiniteSets, TLC

(***************************************************************************)
(* Bounds of the model.                                                    *)
(***************************************************************************)
\* value given to the module parameter scull_p_buffer (bytes in a pipe buffer)
scull_p_buffer == 3
\* largest byte count a caller passes to read(2) / write(2)
MaxCount == 2
\* scullwuid: opens begin only while scull_w_count is above -MaxReleases
MaxReleases == 2
\* value given to SCULL_QUANTUM, the default of the module parameter
\* scull_quantum (bytes in a quantum)
SCULL_QUANTUM == 2
\* value given to SCULL_QSET, the default of the module parameter scull_qset
\* (quanta in a quantum set)
SCULL_QSET == 2
\* largest file offset a write may reach
MaxPos == 4
\* decomposition: largest file position, quantum size and array length
MaxF == 12
MaxQ == 3
MaxS == 3

\* scullp: the page size in bytes and the default length of a quantum array
PAGE_SIZE == 2
SCULLP_QSET == 2

\* scull ioctl: the largest value passed to a command
MaxVal == 3

\* nbtest: the number of bytes fed into the pipe (25 in the scenario)
NbBytes == 4

\* short: the size of the buffer of the interrupt handler, and of one
\* record in it (PAGE_SIZE and 16 in the driver)
SHORT_PAGE == 4
SHORT_RECORD == 2

\* short: the length of the line "bottom half after %6i\n" of the bottom
\* half (25 in the driver, against 16 for a record)
SHORT_HEADER == 3

\* short: the length of the array of time values of the top halves (512 in
\* the driver)
NR_TIMEVAL == 2

\* short: short_wq_count, which only a bottom half resets, stays within
\* 0 .. MaxIrqs
MaxIrqs == 2

\* phantom: the interrupts counted in dev->counter between two resets,
\* 0 .. MaxEvents
MaxEvents == 2

\* scullp: dev->vmas, which unlocked updates let drift, stays within
\* -MaxVmas .. MaxVmas
MaxVmas == 2

\* the processes that use a device (each owns at most one struct file on it)
Proc == {"p1", "p2"}
NoProc == "none"

Min(a, b) == IF a < b THEN a ELSE b

\* a system call's return value: a byte count / 0, or a negative errno
Ok(n) == [err |-> "OK", n |-> n]
Err(e) == [err |-> e, n |-> 0]

VARIABLES
    \* ---- scullpipe --------------------------------------------------------
    dev,        \* struct scull_pipe (one device): buffer, end, buffersize, rp,
                \* wp, nreaders, nwriters, async_queue, lock, inq, outq
    mem,        \* the bytes of dev->buffer, indexed by offset from dev->buffer
    task,       \* per process: position in the driver, struct file fields,
                \* system call arguments, return value, signal and run state
    hist,       \* per process: history of the current call (for the claims)
    ubytes,     \* the byte values the writers' user buffers hold
    unread,     \* history: bytes accepted by writes and not yet returned by
                \* reads since the cursors were last reset
    \* ---- scullsingle ------------------------------------------------------
    scull_s_available,  \* atomic_t scull_s_available
    s_task,     \* per task: position in scull_s_open/release, return value,
                \* history of the open call (for the claims)
    \* ---- sculluid ---------------------------------------------------------
    scull_u_count,      \* int scull_u_count
    scull_u_owner,      \* uid_t scull_u_owner
    scull_u_lock,       \* spinlock_t scull_u_lock: the holder, or NoProc
    u_task,     \* per task: position in scull_u_open/release, credentials,
                \* return value
    \* ---- scullwuid --------------------------------------------------------
    scull_w_count,      \* int scull_w_count
    scull_w_owner,      \* uid_t scull_w_owner
    scull_w_lock,       \* spinlock_t scull_w_lock: the holder, or NoProc
    scull_w_wait,       \* wait_queue_head_t scull_w_wait: the queued tasks
    w_task,     \* per task: position in scull_w_open/release, credentials,
                \* O_NONBLOCK, return value, signal and run state, history
    \* ---- scullpriv --------------------------------------------------------
    scull_c_list,       \* LIST_HEAD(scull_c_list): the struct scull_listitem
                        \* entries, head first; each has its key and the
                        \* identity of its device
    scull_c_lock,       \* spinlock_t scull_c_lock: the holder, or NoProc
    c_task,     \* per task: position in scull_c_open, controlling terminal,
                \* key, dev, filp->private_data, return value
    \* ---- bare scull -------------------------------------------------------
    scull_quantum,      \* int scull_quantum (module parameter)
    scull_qset,         \* int scull_qset (module parameter)
    scull_dev,  \* struct scull_dev (one device): data (the list of struct
                \* scull_qset, head first), quantum, qset, size, lock
    sc_task,    \* per process: position in the driver, f_mode and *f_pos of
                \* its struct file, and on return the count asked for, the
                \* bytes copied to the user buffer and the return value
    sc_env,     \* the use made of the device: users (the processes that
                \* open it), modes (the access modes they open it with),
                \* bytes (the byte values their user buffers hold), faults
                \* (whether kmalloc and the user copies can fail)
    shadow,     \* history: per offset, the byte stored there last inside
                \* the device size since the last trim
    contig,     \* history: since the last trim that returned, every write
                \* that returned a count began at or below the device size
    \* ---- quantum/offset decomposition -------------------------------------
    dc_arg,     \* the file position, quantum size and array length given
    dc_res,     \* the function applied last and the triple it computed
    \* ---- scullp -----------------------------------------------------------
    scullp_dev, \* struct scullp_dev (one device): nodes (the list of struct
                \* scullp_dev, the device itself first, each with its data
                \* and order), vmas, qset, size, mutex
    sp_task,    \* per process: position in the driver, f_mode and *f_pos of
                \* its struct file, and on return the bytes copied to the
                \* user buffer and the return value
    sp_vma,     \* per process: its mapping of the device (n: the number
                \* of its vm_area_structs; ptes: the page table entries the
                \* fault handler filled, each holding a reference to a page
                \* of the device; tmp: the value of dev->vmas it has read;
                \* vmf: the fault just handled)
    sp_env,     \* the use made of the device: users, modes, bytes, faults as
                \* for bare scull, and order (the module parameter
                \* scullp_order)
    dev_nodes,  \* the device nodes the processes open
    \* ---- scull ioctl ------------------------------------------------------
    io_task,    \* per process: position in scull_ioctl, the command, the
                \* caller's capability, the value passed (val: arg itself,
                \* or the int arg points to at the call's entry), what
                \* access_ok says of arg, the int at arg now (mem), tmp, the
                \* return value, and the parameters at the call's entry
    io_env,     \* the processes that call ioctl
    \* ---- sleepy (ioctl/sleepy.c) ----
    sleepy_flag, \* static int flag
    sl_task,    \* per process: where it is in sleepy_read or sleepy_write
    \* ---- short, the interrupt-driven device (short/short.c) ----
    short_head, \* where the interrupt handler writes next, as an offset
                \* from short_buffer
    short_tail, \* where short_i_read reads next
    sh_task,    \* per process: where it is in short_i_read
    sh_irq,     \* the installed handler, tv_head, tv_tail, short_wq_count, tasklet
    \* ---- hello (the hello device of scull/pipe.c) ----
    is_open,    \* volatile static int is_open
    he_task,    \* per process: where it is in hello_open or hello_release
    \* ---- nbtest (nbtest.c) copying a scullpipe device to its output ----
    nbt,        \* the program: pc, its buffer, n, what it has written to
                \* standard output, whether a read returned EAGAIN
    feeder,     \* the process that writes the input into the pipe: pc, and
                \* fed, the bytes the pipe has accepted from it
    phantom_dev,  \* phantom: the device, struct phantom_device
    ph_task,  \* phantom: each process's position in a system call
    config_smp  \* the kernel build: TRUE when spin_lock takes a real lock,
                \* FALSE for a uniprocessor build without preemption, where
                \* spin_lock and spin_unlock compile to nothing

pipe_vars == <<dev, mem, task, hist, ubytes, unread>>
single_vars == <<scull_s_available, s_task>>
uid_vars == <<scull_u_count, scull_u_owner, scull_u_lock, u_task>>
wuid_vars == <<scull_w_count, scull_w_owner, scull_w_lock, scull_w_wait, w_task>>
priv_vars == <<scull_c_list, scull_c_lock, c_task>>
scull_vars == <<scull_quantum, scull_qset, scull_dev, sc_task, sc_env, shadow,
                contig>>
decomp_vars == <<dc_arg, dc_res>>
scullp_vars == <<scullp_dev, sp_task, sp_env, sp_vma>>
ioctl_vars == <<io_task, io_env>>
sleepy_vars == <<sleepy_flag, sl_task>>
short_vars == <<short_head, short_tail, sh_task, sh_irq>>
hello_vars == <<is_open, he_task>>
nbtest_vars == <<nbt, feeder>>
phantom_vars == <<phantom_dev, ph_task>>

\* what the methods of one device leave alone: the other devices
pipe_frame == <<single_vars, uid_vars, wuid_vars, priv_vars, scull_vars,
    decomp_vars, scullp_vars, config_smp, ioctl_vars, sleepy_vars,
    short_vars, hello_vars, nbtest_vars, phantom_vars, dev_nodes>>
single_frame == <<pipe_vars, uid_vars, wuid_vars, priv_vars, scull_vars,
    decomp_vars, scullp_vars, config_smp, ioctl_vars, sleepy_vars,
    short_vars, hello_vars, nbtest_vars, phantom_vars, dev_nodes>>
uid_frame == <<pipe_vars, single_vars, wuid_vars, priv_vars, scull_vars,
    decomp_vars, scullp_vars, config_smp, ioctl_vars, sleepy_vars,
    short_vars, hello_vars, nbtest_vars, phantom_vars, dev_nodes>>
wuid_frame == <<pipe_vars, single_vars, uid_vars, priv_vars, scull_vars,
    decomp_vars, scullp_vars, config_smp, ioctl_vars, sleepy_vars,
    short_vars, hello_vars, nbtest_vars, phantom_vars, dev_nodes>>
priv_frame == <<pipe_vars, single_vars, uid_vars, wuid_vars, scull_vars,
    decomp_vars, scullp_vars, config_smp, ioctl_vars, sleepy_vars,
    short_vars, hello_vars, nbtest_vars, phantom_vars, dev_nodes>>
scull_frame == <<pipe_vars, single_vars, uid_vars, wuid_vars, priv_vars,
    decomp_vars, scullp_vars, config_smp, ioctl_vars, sleepy_vars,
    short_vars, hello_vars, nbtest_vars, phantom_vars, dev_nodes>>
decomp_frame == <<pipe_vars, single_vars, uid_vars, wuid_vars, priv_vars,
    scull_vars, scullp_vars, config_smp, ioctl_vars, sleepy_vars, short_vars,
    hello_vars, nbtest_vars, phantom_vars, dev_nodes>>
scullp_frame == <<pipe_vars, single_vars, uid_vars, wuid_vars, priv_vars,
    scull_vars, decomp_vars, config_smp, ioctl_vars, sleepy_vars, short_vars,
    hello_vars, nbtest_vars, phantom_vars, dev_nodes>>
\* scull_ioctl writes the module parameters of bare scull
ioctl_frame == <<pipe_vars, single_vars, uid_vars, wuid_vars, priv_vars,
    scull_dev, sc_task, sc_env, shadow, contig, decomp_vars, scullp_vars,
    config_smp, sleepy_vars, short_vars, hello_vars, nbtest_vars,
    phantom_vars, dev_nodes>>
sleepy_frame == <<pipe_vars, single_vars, uid_vars, wuid_vars, priv_vars,
    scull_vars, decomp_vars, scullp_vars, ioctl_vars, config_smp, short_vars,
    hello_vars, nbtest_vars, phantom_vars, dev_nodes>>
short_frame == <<pipe_vars, single_vars, uid_vars, wuid_vars, priv_vars,
    scull_vars, decomp_vars, scullp_vars, ioctl_vars, sleepy_vars,
    config_smp, hello_vars, nbtest_vars, phantom_vars, dev_nodes>>
hello_frame == <<pipe_vars, single_vars, uid_vars, wuid_vars, priv_vars,
    scull_vars, decomp_vars, scullp_vars, ioctl_vars, sleepy_vars,
    short_vars, config_smp, nbtest_vars, phantom_vars, dev_nodes>>
nbtest_frame == <<pipe_vars, single_vars, uid_vars, wuid_vars, priv_vars,
    scull_vars, decomp_vars, scullp_vars, ioctl_vars, sleepy_vars,
    short_vars, hello_vars, config_smp, phantom_vars, dev_nodes>>
phantom_frame == <<pipe_vars, single_vars, uid_vars, wuid_vars, priv_vars,
    scull_vars, decomp_vars, scullp_vars, ioctl_vars, sleepy_vars,
    short_vars, hello_vars, nbtest_vars, config_smp, dev_nodes>>

(***************************************************************************)
(*                            scullpipe (pipe.c)                           *)
(***************************************************************************)
FMODE_READ == "FMODE_READ"
FMODE_WRITE == "FMODE_WRITE"
\* f_mode of a file opened O_RDONLY, O_WRONLY or O_RDWR
FModes == {{FMODE_READ}, {FMODE_WRITE}, {FMODE_READ, FMODE_WRITE}}

Offsets == 0 .. (scull_p_buffer - 1)

\* the user buffers of count bytes a writer may pass
UserBufs(count) == [1 .. count -> ubytes]

\* spacefree without the byte that is kept unused
spacefree_all_bytes(rp_, wp_, bs) ==
    IF rp_ = wp_ THEN bs ELSE (rp_ - wp_ + bs) % bs

\* how much space is free (rp, wp: offsets; bs: dev->buffersize)
spacefree(rp_, wp_, bs) ==
    IF rp_ = wp_ THEN bs - 1
    ELSE ((rp_ - wp_ + bs) % bs) - 1

\* the driver method returns r: the process is on its way back to user
\* space, where it will be at nextpc ("idle": it holds the open file,
\* "closed": it holds none)
Return(t, r, nextpc) ==
    [t EXCEPT !.pc = IF nextpc = "idle" THEN "ret_idle" ELSE "ret_closed",
              !.ret = r, !.tstate = "RUNNING"]

\* the task and history records of a process that is in user space
UserTask(fm) ==
    [pc |-> IF fm = {} THEN "closed" ELSE "idle", f_mode |-> fm,
     count |-> 0, ubuf |-> <<>>, ret |-> Ok(0), sig |-> FALSE,
     tstate |-> "RUNNING"]
\* op: the method called; mustwait: the call found the buffer empty (read) or
\* full (write); nonblock: the value of filp->f_flags & O_NONBLOCK it then
\* read; stored: a write stored a byte after the read found the buffer
\* empty; woke: the call executed its wake_up_interruptible
NoHist ==
    [op |-> "none", mustwait |-> FALSE, nonblock |-> FALSE, stored |-> FALSE,
     woke |-> FALSE]

\* the process is inside a driver method
InSyscall(p) == task[p].pc \notin {"closed", "idle", "ret_idle", "ret_closed"}

\* the process is back in user space with the value the method returned; a
\* pending signal is handled on the way out.  The arguments and the result of
\* the finished call are dropped from the state.
ret_to_user(p) ==
    /\ task[p].pc \in {"ret_idle", "ret_closed"}
    /\ UNCHANGED pipe_frame
    /\ task' = [task EXCEPT ![p] =
                  IF @.pc = "ret_idle" THEN UserTask(@.f_mode)
                  ELSE UserTask({})]
    /\ hist' = [hist EXCEPT ![p] = NoHist]
    /\ UNCHANGED <<dev, mem, ubytes, unread>>

\* scull_p_init: memset(scull_p_devices, 0, ...), init_waitqueue_head x2,
\* mutex_init.  Pointers are offsets from dev->buffer; buffer is TRUE when
\* the pointer is non-NULL.
pipe_Init ==
    /\ dev = [buffer |-> FALSE, end |-> 0, buffersize |-> 0, rp |-> 0, wp |-> 0,
              nreaders |-> 0, nwriters |-> 0, async_queue |-> {},
              lock |-> NoProc, inq |-> {}, outq |-> {}]
    /\ mem = [i \in Offsets |-> 0]
    /\ task = [p \in Proc |-> UserTask({})]
    /\ hist = [p \in Proc |-> NoHist]
    /\ unread = 0

\* wake_up_interruptible(q): every TASK_INTERRUPTIBLE waiter of q becomes
\* runnable and (autoremove_wake_function) leaves the queue
Woken(q) == {x \in q : task[x].tstate = "INTERRUPTIBLE"}

\* A process reaches mutex_lock / mutex_lock_interruptible(&dev->lock): it
\* takes the mutex at once when it is free (fast path) and otherwise waits.
\* LockPc: where the process is next; LockOwner: who holds the mutex next.
LockPc(okpc, waitpc) == IF dev.lock = NoProc THEN okpc ELSE waitpc
LockOwner(p) == IF dev.lock = NoProc THEN p ELSE dev.lock

\* mutex_lock_interruptible(&dev->lock), slow path: the waiting process takes
\* the mutex once it is free, or gives up with -ERESTARTSYS when a signal is
\* pending.  okpc: where the caller continues with the mutex held; failpc:
\* where the process is after the failed system call.
mutex_lock_interruptible(p, okpc, failpc) ==
    \/ /\ dev.lock = NoProc
       /\ dev' = [dev EXCEPT !.lock = p]
       /\ task' = [task EXCEPT ![p].pc = okpc]
    \/ /\ dev.lock # NoProc
       /\ task[p].sig
       /\ task' = [task EXCEPT ![p] = Return(@, Err("ERESTARTSYS"), failpc)]
       /\ UNCHANGED dev

\* the places where a driver method looks at the pending signal: waiting
\* for the contended mutex, the interruptible sleeps and the signal_pending
\* test of scull_getwritespace
SignalObserved(p) ==
    task[p].pc \in {"o_lock", "r_lock", "w_lock",
                    "r_wait", "r_sched", "w_sched", "w_finish"}

\* a signal (from kill(2), or SIGIO from kill_fasync) arrives at a process
\* that is inside a driver method: it becomes pending and an interruptible
\* sleeper is made runnable (signal_wake_up).  A signal that arrives earlier
\* in the call stays pending until one of these places, so its arrival is
\* taken there.
deliver_signal(p) ==
    /\ SignalObserved(p)
    /\ UNCHANGED pipe_frame
    /\ ~task[p].sig
    /\ task' = [task EXCEPT ![p].sig = TRUE, ![p].tstate = "RUNNING"]
    /\ UNCHANGED <<dev, mem, hist, ubytes, unread>>

\* ---- scull_p_open ---------------------------------------------------------
\* open(2) enters the driver: filp->f_mode is the caller's
scull_p_open_call(p) ==
    /\ "scullpipe" \in dev_nodes
    /\ task[p].pc = "closed"
    /\ UNCHANGED pipe_frame
    /\ \E m \in FModes :
          task' = [task EXCEPT ![p].pc = LockPc("o_body", "o_lock"),
                               ![p].f_mode = m]
    /\ dev' = [dev EXCEPT !.lock = LockOwner(p)]
    /\ hist' = [hist EXCEPT ![p].op = "open"]
    /\ UNCHANGED <<mem, ubytes, unread>>

scull_p_open_lock(p) ==
    /\ task[p].pc = "o_lock"
    /\ UNCHANGED pipe_frame
    /\ mutex_lock_interruptible(p, "o_body", "closed")
    /\ UNCHANGED <<mem, hist, ubytes, unread>>

\* the locked section of scull_p_open and the return of nonseekable_open().
\* kmalloc may fail.  kmalloc does not initialise the buffer; no byte of it
\* is read before it is written, because the cursors start equal.
scull_p_open_body(p) ==
    /\ task[p].pc = "o_body"
    /\ UNCHANGED pipe_frame
    /\ \E alloc_ok \in BOOLEAN :
         IF ~dev.buffer /\ ~alloc_ok
         THEN /\ dev' = [dev EXCEPT !.lock = NoProc]
              /\ task' = [task EXCEPT ![p] = Return(@, Err("ENOMEM"), "closed")]
              /\ UNCHANGED unread
         ELSE /\ unread' = 0
              /\ dev' = [dev EXCEPT
                    !.buffer = TRUE,
                    !.buffersize = scull_p_buffer,
                    !.end = scull_p_buffer,
                    !.rp = 0,
                    !.wp = 0,
                    !.nreaders = IF FMODE_READ \in task[p].f_mode THEN @ + 1 ELSE @,
                    !.nwriters = IF FMODE_WRITE \in task[p].f_mode THEN @ + 1 ELSE @,
                    !.lock = NoProc]
              /\ task' = [task EXCEPT ![p] = Return(@, Ok(0), "idle")]
    /\ UNCHANGED <<mem, hist, ubytes>>

\* ---- scull_p_fasync -------------------------------------------------------
\* fasync_helper(fd, filp, mode, &dev->async_queue): mode # 0 adds the file
\* to the list, mode = 0 removes it
fasync_helper(p, mode) ==
    IF mode THEN dev.async_queue \cup {p} ELSE dev.async_queue \ {p}

\* fcntl(F_SETFL) with FASYNC set or cleared
scull_p_fasync(p) ==
    /\ task[p].pc = "idle"
    /\ UNCHANGED pipe_frame
    /\ \E mode \in BOOLEAN :
          dev' = [dev EXCEPT !.async_queue = fasync_helper(p, mode)]
    /\ UNCHANGED <<mem, task, hist, ubytes, unread>>

\* ---- scull_p_release ------------------------------------------------------
\* close(2) of the last reference: scull_p_fasync(-1, filp, 0), then
\* mutex_lock (not interruptible)
scull_p_release_call(p) ==
    /\ task[p].pc = "idle"
    /\ UNCHANGED pipe_frame
    /\ dev' = [dev EXCEPT !.async_queue = fasync_helper(p, FALSE),
                          !.lock = LockOwner(p)]
    /\ task' = [task EXCEPT ![p].pc = LockPc("rel_body", "rel_lock")]
    /\ hist' = [hist EXCEPT ![p].op = "release"]
    /\ UNCHANGED <<mem, ubytes, unread>>

scull_p_release_lock(p) ==
    /\ task[p].pc = "rel_lock"
    /\ UNCHANGED pipe_frame
    /\ dev.lock = NoProc
    /\ dev' = [dev EXCEPT !.lock = p]
    /\ task' = [task EXCEPT ![p].pc = "rel_body"]
    /\ UNCHANGED <<mem, hist, ubytes, unread>>

\* scull_p_release_body that frees the buffer when the last reader leaves
scull_p_release_body_readers_only(p) ==
    /\ task[p].pc = "rel_body"
    /\ UNCHANGED pipe_frame
    /\ LET nr == IF FMODE_READ \in task[p].f_mode
                 THEN dev.nreaders - 1 ELSE dev.nreaders
           nw == IF FMODE_WRITE \in task[p].f_mode
                 THEN dev.nwriters - 1 ELSE dev.nwriters
       IN dev' = [dev EXCEPT !.nreaders = nr, !.nwriters = nw,
                             !.buffer = IF nr = 0 THEN FALSE ELSE @,
                             !.lock = NoProc]
    /\ task' = [task EXCEPT ![p] = Return(@, Ok(0), "closed")]
    /\ UNCHANGED <<mem, hist, ubytes, unread>>

\* the locked section of scull_p_release; kfree leaves rp, wp, end and
\* buffersize as they were ("the other fields are not checked on open")
scull_p_release_body(p) ==
    /\ task[p].pc = "rel_body"
    /\ UNCHANGED pipe_frame
    /\ LET nr == IF FMODE_READ \in task[p].f_mode
                 THEN dev.nreaders - 1 ELSE dev.nreaders
           nw == IF FMODE_WRITE \in task[p].f_mode
                 THEN dev.nwriters - 1 ELSE dev.nwriters
       IN dev' = [dev EXCEPT !.nreaders = nr, !.nwriters = nw,
                             !.buffer = IF nr + nw = 0 THEN FALSE ELSE @,
                             !.lock = NoProc]
    /\ task' = [task EXCEPT ![p] = Return(@, Ok(0), "closed")]
    /\ UNCHANGED <<mem, hist, ubytes, unread>>

\* ---- scull_p_read ---------------------------------------------------------
\* read(2) enters the driver (the VFS admits it on a file with FMODE_READ).
\* The caller's count and buffer are not looked at before the copy: they
\* are drawn there.
scull_p_read_call(p) ==
    /\ task[p].pc = "idle"
    /\ UNCHANGED pipe_frame
    /\ FMODE_READ \in task[p].f_mode
    /\ task' = [task EXCEPT ![p].pc = LockPc("r_check", "r_lock")]
    /\ dev' = [dev EXCEPT !.lock = LockOwner(p)]
    /\ hist' = [hist EXCEPT ![p].op = "read"]
    /\ UNCHANGED <<mem, ubytes, unread>>

\* both mutex_lock_interruptible calls of scull_p_read lead to the loop test
scull_p_read_lock(p) ==
    /\ task[p].pc = "r_lock"
    /\ UNCHANGED pipe_frame
    /\ mutex_lock_interruptible(p, "r_check", "idle")
    /\ UNCHANGED <<mem, hist, ubytes, unread>>

\* read_count that takes the run to the end of the buffer in both cases
read_count_to_end(count, rp_, wp_, end_) == Min(count, end_ - rp_)

\* the number of bytes scull_p_read transfers
read_count(count, rp_, wp_, end_) ==
    IF wp_ > rp_ THEN Min(count, wp_ - rp_) ELSE Min(count, end_ - rp_)

\* filp->f_flags & O_NONBLOCK is an input of the call (fcntl(F_SETFL) sets
\* it between calls).  The methods read it only after they found the buffer
\* empty or full: it is drawn where the call first reads it and is the same,
\* clear, whenever the call reads it again.
NonblockFlag(p) == IF hist[p].mustwait THEN {hist[p].nonblock} ELSE BOOLEAN

\* scull_p_read_empty that leaves through the wake-up of the writers when it
\* returns -EAGAIN
scull_p_read_empty_wakes(p) ==
    /\ dev' = [dev EXCEPT !.lock = NoProc]
    /\ \E nonblock \in NonblockFlag(p) :
         /\ task' = [task EXCEPT ![p] =
                        IF nonblock
                        THEN [@ EXCEPT !.pc = "r_wake", !.ret = Err("EAGAIN")]
                        ELSE [@ EXCEPT !.pc = "r_wait"]]
         /\ hist' = [hist EXCEPT ![p].mustwait = TRUE, ![p].nonblock = nonblock,
                                 ![p].stored = FALSE]
    /\ UNCHANGED <<mem, ubytes, unread>>

\* scull_p_read_empty that returns -EAGAIN with the mutex still held
scull_p_read_empty_locked(p) ==
    \E nonblock \in NonblockFlag(p) :
         /\ dev' = [dev EXCEPT !.lock = IF nonblock THEN @ ELSE NoProc]
         /\ task' = [task EXCEPT ![p] =
                        IF nonblock THEN Return(@, Err("EAGAIN"), "idle")
                        ELSE [@ EXCEPT !.pc = "r_wait"]]
         /\ hist' = [hist EXCEPT ![p].mustwait = TRUE, ![p].nonblock = nonblock,
                                 ![p].stored = FALSE]
         /\ UNCHANGED <<mem, ubytes, unread>>

\* the body of while(dev->rp == dev->wp) up to the sleep: the mutex is
\* released, then -EAGAIN or wait_event_interruptible
scull_p_read_empty(p) ==
    /\ dev' = [dev EXCEPT !.lock = NoProc]
    /\ \E nonblock \in NonblockFlag(p) :
         /\ task' = [task EXCEPT ![p] =
                        IF nonblock THEN Return(@, Err("EAGAIN"), "idle")
                        ELSE [@ EXCEPT !.pc = "r_wait"]]
         /\ hist' = [hist EXCEPT ![p].mustwait = TRUE, ![p].nonblock = nonblock,
                                 ![p].stored = FALSE]
    /\ UNCHANGED <<mem, ubytes, unread>>

\* after the loop: count, copy_to_user (which may fault when it copies at
\* least one byte), advance and wrap rp, mutex_unlock
scull_p_read_copy(p) ==
    \E count \in 0 .. MaxCount,
          fault \in (IF sc_env.faults THEN BOOLEAN ELSE {FALSE}) :
       LET c == read_count(count, dev.rp, dev.wp, dev.end)
           nrp == IF dev.rp + c = dev.end THEN 0 ELSE dev.rp + c
       IN /\ IF fault /\ c > 0
             THEN /\ dev' = [dev EXCEPT !.lock = NoProc]
                  /\ task' = [task EXCEPT ![p] =
                        Return([@ EXCEPT !.count = count], Err("EFAULT"), "idle")]
                  /\ UNCHANGED unread
             ELSE /\ dev' = [dev EXCEPT !.rp = nrp, !.lock = NoProc]
                  /\ unread' = unread - c
                  /\ task' = [task EXCEPT
                        ![p].pc = "r_wake",
                        ![p].count = count,
                        ![p].ret = Ok(c),
                        ![p].ubuf = [i \in 1 .. c |-> mem[dev.rp + i - 1]]]
          /\ UNCHANGED <<mem, hist, ubytes>>

\* the loop test of scull_p_read with the mutex held
scull_p_read_check(p) ==
    /\ task[p].pc = "r_check"
    /\ UNCHANGED pipe_frame
    /\ IF dev.rp = dev.wp THEN scull_p_read_empty(p) ELSE scull_p_read_copy(p)

\* wait_event_interruptible(dev->inq, (dev->rp != dev->wp)), one turn of its
\* loop: the condition ends the wait; otherwise a pending signal ends it with
\* -ERESTARTSYS; otherwise the process is on dev->inq, TASK_INTERRUPTIBLE,
\* and calls schedule()
scull_p_read_wait(p) ==
    /\ task[p].pc = "r_wait"
    /\ UNCHANGED pipe_frame
    /\ IF dev.rp # dev.wp
       THEN /\ dev' = [dev EXCEPT !.inq = @ \ {p}, !.lock = LockOwner(p)]
            /\ task' = [task EXCEPT ![p].pc = LockPc("r_check", "r_lock"),
                                    ![p].tstate = "RUNNING"]
            /\ UNCHANGED hist
       ELSE IF task[p].sig
       THEN /\ dev' = [dev EXCEPT !.inq = @ \ {p}]
            /\ task' = [task EXCEPT ![p] = Return(@, Err("ERESTARTSYS"), "idle")]
            /\ UNCHANGED hist
       ELSE /\ dev' = [dev EXCEPT !.inq = @ \cup {p}]
            /\ task' = [task EXCEPT ![p].pc = "r_sched",
                                    ![p].tstate = "INTERRUPTIBLE"]
            /\ UNCHANGED hist
    /\ UNCHANGED <<mem, ubytes, unread>>

\* schedule() returns once a wake-up or a signal has made the process runnable
scull_p_read_sched(p) ==
    /\ task[p].pc = "r_sched"
    /\ UNCHANGED pipe_frame
    /\ task[p].tstate = "RUNNING"
    /\ task' = [task EXCEPT ![p].pc = "r_wait"]
    /\ UNCHANGED <<dev, mem, hist, ubytes, unread>>

\* wake_up_interruptible(&dev->outq); return count
scull_p_read_wake(p) ==
    /\ task[p].pc = "r_wake"
    /\ UNCHANGED pipe_frame
    /\ dev' = [dev EXCEPT !.outq = @ \ Woken(dev.outq)]
    /\ task' = [q \in Proc |->
                  IF q = p THEN Return(task[p], task[p].ret, "idle")
                  ELSE IF q \in Woken(dev.outq)
                       THEN [task[q] EXCEPT !.tstate = "RUNNING"]
                       ELSE task[q]]
    /\ hist' = [hist EXCEPT ![p].woke = TRUE]
    /\ UNCHANGED <<mem, ubytes, unread>>

\* ---- scull_p_write and scull_getwritespace --------------------------------
\* write(2) enters the driver (the VFS admits it on a file with FMODE_WRITE).
\* The caller's count and buffer are not looked at before the copy: they
\* are drawn there.
scull_p_write_call(p) ==
    /\ task[p].pc = "idle"
    /\ UNCHANGED pipe_frame
    /\ FMODE_WRITE \in task[p].f_mode
    /\ task' = [task EXCEPT ![p].pc = LockPc("w_space", "w_lock")]
    /\ dev' = [dev EXCEPT !.lock = LockOwner(p)]
    /\ hist' = [hist EXCEPT ![p].op = "write"]
    /\ UNCHANGED <<mem, ubytes, unread>>

\* the mutex_lock_interruptible of scull_p_write and the one at the end of
\* the loop of scull_getwritespace both lead to the loop test
scull_p_write_lock(p) ==
    /\ task[p].pc = "w_lock"
    /\ UNCHANGED pipe_frame
    /\ mutex_lock_interruptible(p, "w_space", "idle")
    /\ UNCHANGED <<mem, hist, ubytes, unread>>

\* write_count without the cap at the end of the buffer
write_count_past_end(count, rp_, wp_, end_, bs) ==
    Min(count, spacefree(rp_, wp_, bs))

\* write_count without count = min(count, (size_t)spacefree(dev))
write_count_run_only(count, rp_, wp_, end_, bs) ==
    IF wp_ >= rp_ THEN Min(count, end_ - wp_) ELSE Min(count, rp_ - wp_ - 1)

\* the number of bytes scull_p_write accepts
write_count(count, rp_, wp_, end_, bs) ==
    LET c == Min(count, spacefree(rp_, wp_, bs))
    IN IF wp_ >= rp_ THEN Min(c, end_ - wp_) ELSE Min(c, rp_ - wp_ - 1)

\* scull_getwritespace, body of while(spacefree(dev) == 0) up to the sleep:
\* the mutex is released, then -EAGAIN or the manual sleep
scull_getwritespace_full(p) ==
    /\ dev' = [dev EXCEPT !.lock = NoProc]
    /\ \E nonblock \in NonblockFlag(p) :
         /\ task' = [task EXCEPT ![p] =
                        IF nonblock THEN Return(@, Err("EAGAIN"), "idle")
                        ELSE [@ EXCEPT !.pc = "w_prep"]]
         /\ hist' = [hist EXCEPT ![p].mustwait = TRUE, ![p].nonblock = nonblock]
    /\ UNCHANGED <<mem, ubytes, unread>>

\* scull_p_write once scull_getwritespace returned 0: count, copy_from_user
\* (which may fault when it copies at least one byte; the bytes a faulting
\* copy may have stored lie in the free region and wp does not move),
\* advance and wrap wp, mutex_unlock
scull_p_write_copy(p) ==
    \E count \in 0 .. MaxCount,
          fault \in (IF sc_env.faults THEN BOOLEAN ELSE {FALSE}) : \E ub \in UserBufs(count) :
       LET c == write_count(count, dev.rp, dev.wp, dev.end, dev.buffersize)
           nwp == IF dev.wp + c = dev.end THEN 0 ELSE dev.wp + c
       IN IF fault /\ c > 0
          THEN /\ dev' = [dev EXCEPT !.lock = NoProc]
               /\ task' = [task EXCEPT ![p] =
                     Return([@ EXCEPT !.count = count], Err("EFAULT"), "idle")]
               /\ UNCHANGED <<mem, hist, ubytes, unread>>
          ELSE /\ mem' = [i \in Offsets |->
                            IF i >= dev.wp /\ i < dev.wp + c
                            THEN ub[i - dev.wp + 1] ELSE mem[i]]
               /\ dev' = [dev EXCEPT !.wp = nwp, !.lock = NoProc]
               /\ task' = [task EXCEPT ![p].pc = "w_wake", ![p].count = count,
                                       ![p].ret = Ok(c)]
               /\ hist' = [q \in Proc |->
                             [hist[q] EXCEPT !.stored =
                                 @ \/ (c > 0 /\ hist[q].op = "read"
                                              /\ hist[q].mustwait)]]
               /\ UNCHANGED ubytes
               /\ unread' = unread + c

\* the loop test of scull_getwritespace with the mutex held
scull_p_write_space(p) ==
    /\ task[p].pc = "w_space"
    /\ UNCHANGED pipe_frame
    /\ IF spacefree(dev.rp, dev.wp, dev.buffersize) = 0
       THEN scull_getwritespace_full(p)
       ELSE scull_p_write_copy(p)

\* prepare_to_wait(&dev->outq, &wait, TASK_INTERRUPTIBLE)
scull_getwritespace_prepare(p) ==
    /\ task[p].pc = "w_prep"
    /\ UNCHANGED pipe_frame
    /\ dev' = [dev EXCEPT !.outq = @ \cup {p}]
    /\ task' = [task EXCEPT ![p].pc = "w_retest", ![p].tstate = "INTERRUPTIBLE"]
    /\ UNCHANGED <<mem, hist, ubytes, unread>>

\* a scull_getwritespace that calls schedule() without testing again
getwritespace_yields_always(free) == TRUE

\* the test between prepare_to_wait and schedule(): if(spacefree(dev) == 0)
getwritespace_yields(free) == free = 0

\* if(spacefree(dev) == 0) schedule();  (read without the mutex)
scull_getwritespace_retest(p) ==
    /\ task[p].pc = "w_retest"
    /\ UNCHANGED pipe_frame
    /\ task' = [task EXCEPT ![p].pc =
                   IF getwritespace_yields(
                          spacefree(dev.rp, dev.wp, dev.buffersize))
                   THEN "w_sched" ELSE "w_finish"]
    /\ UNCHANGED <<dev, mem, hist, ubytes, unread>>

\* schedule() returns once a wake-up has made the process runnable, and at
\* once when a signal is pending
scull_getwritespace_schedule(p) ==
    /\ task[p].pc = "w_sched"
    /\ UNCHANGED pipe_frame
    /\ task[p].tstate = "RUNNING" \/ task[p].sig
    /\ task' = [task EXCEPT ![p].pc = "w_finish", ![p].tstate = "RUNNING"]
    /\ UNCHANGED <<dev, mem, hist, ubytes, unread>>

\* finish_wait(&dev->outq, &wait); signal_pending(current) ends the call
scull_getwritespace_finish(p) ==
    /\ task[p].pc = "w_finish"
    /\ UNCHANGED pipe_frame
    /\ dev' = [dev EXCEPT !.outq = @ \ {p},
                          !.lock = IF task[p].sig THEN @ ELSE LockOwner(p)]
    /\ task' = [task EXCEPT ![p] =
                   IF @.sig THEN Return(@, Err("ERESTARTSYS"), "idle")
                   ELSE [@ EXCEPT !.pc = LockPc("w_space", "w_lock"),
                                  !.tstate = "RUNNING"]]
    /\ UNCHANGED <<mem, hist, ubytes, unread>>

\* wake_up_interruptible(&dev->inq); kill_fasync(&dev->async_queue, SIGIO,
\* POLL_IN) when the list is not empty (the arrival of SIGIO at a process
\* that is inside the driver is deliver_signal); return count
scull_p_write_wake(p) ==
    /\ task[p].pc = "w_wake"
    /\ UNCHANGED pipe_frame
    /\ dev' = [dev EXCEPT !.inq = @ \ Woken(dev.inq)]
    /\ task' = [q \in Proc |->
                  IF q = p THEN Return(task[p], task[p].ret, "idle")
                  ELSE IF q \in Woken(dev.inq)
                       THEN [task[q] EXCEPT !.tstate = "RUNNING"]
                       ELSE task[q]]
    /\ UNCHANGED <<mem, hist, ubytes, unread>>

\* ---- scull_p_poll ---------------------------------------------------------
scull_p_poll_call(p) ==
    /\ task[p].pc = "idle"
    /\ UNCHANGED pipe_frame
    /\ task' = [task EXCEPT ![p].pc = LockPc("poll_body", "poll_lock")]
    /\ dev' = [dev EXCEPT !.lock = LockOwner(p)]
    /\ hist' = [hist EXCEPT ![p].op = "poll"]
    /\ UNCHANGED <<mem, ubytes, unread>>

\* mutex_lock(&dev->lock)
scull_p_poll_lock(p) ==
    /\ task[p].pc = "poll_lock"
    /\ UNCHANGED pipe_frame
    /\ dev.lock = NoProc
    /\ dev' = [dev EXCEPT !.lock = p]
    /\ task' = [task EXCEPT ![p].pc = "poll_body"]
    /\ UNCHANGED <<mem, hist, ubytes, unread>>

\* the mask scull_p_poll returns
poll_mask(rp_, wp_, bs) ==
    (IF rp_ # wp_ THEN {"POLLIN", "POLLRDNORM"} ELSE {})
    \cup (IF spacefree(rp_, wp_, bs) # 0 THEN {"POLLOUT", "POLLWRNORM"} ELSE {})

\* poll_wait x2 (the poll core's table entries are not sleepers of this
\* model), the mask, mutex_unlock
scull_p_poll_body(p) ==
    /\ task[p].pc = "poll_body"
    /\ UNCHANGED pipe_frame
    /\ dev' = [dev EXCEPT !.lock = NoProc]
    /\ task' = [task EXCEPT ![p] =
                  Return(@, [err |-> "OK", n |-> 0,
                             mask |-> poll_mask(dev.rp, dev.wp, dev.buffersize)],
                         "idle")]
    /\ UNCHANGED <<mem, hist, ubytes, unread>>

\* the methods of scullpipe that take the mutex or run beside it
pipe_locking_Next ==
    \/ \E p \in Proc : scull_p_open_call(p)
    \/ \E p \in Proc : scull_p_open_lock(p)
    \/ \E p \in Proc : scull_p_open_body(p)
    \/ \E p \in Proc : scull_p_release_call(p)
    \/ \E p \in Proc : scull_p_release_lock(p)
    \/ \E p \in Proc : scull_p_release_body(p)
    \/ \E p \in Proc : scull_p_read_call(p)
    \/ \E p \in Proc : scull_p_read_lock(p)
    \/ \E p \in Proc : scull_p_read_check(p)
    \/ \E p \in Proc : scull_p_read_wait(p)
    \/ \E p \in Proc : scull_p_read_sched(p)
    \/ \E p \in Proc : scull_p_read_wake(p)
    \/ \E p \in Proc : scull_p_write_call(p)
    \/ \E p \in Proc : scull_p_write_lock(p)
    \/ \E p \in Proc : scull_p_write_space(p)
    \/ \E p \in Proc : scull_getwritespace_prepare(p)
    \/ \E p \in Proc : scull_getwritespace_retest(p)
    \/ \E p \in Proc : scull_getwritespace_schedule(p)
    \/ \E p \in Proc : scull_getwritespace_finish(p)
    \/ \E p \in Proc : scull_p_write_wake(p)
    \/ \E p \in Proc : scull_p_poll_call(p)
    \/ \E p \in Proc : scull_p_poll_lock(p)
    \/ \E p \in Proc : scull_p_poll_body(p)
    \/ \E p \in Proc : deliver_signal(p)
    \/ \E p \in Proc : ret_to_user(p)

pipe_Next ==
    \/ pipe_locking_Next
    \/ \E p \in Proc : scull_p_fasync(p)

(***************************************************************************)
(*                     access.c: the policies of open                      *)
(* scull_trim(dev) and filp->private_data = dev at the end of the open     *)
(* methods act on the device's data and on the new struct file only; they  *)
(* touch none of the policy state below.                                   *)
(***************************************************************************)
\* the tasks that use the access-controlled devices (each owns at most one
\* struct file on a device)
Tasks == {"t1", "t2", "t3"}
\* those of them that use sculluid and scullwuid
UidTasks == {"t1", "t2"}

\* the user ids a task runs under; 0 is also what the static scull_u_owner
\* and scull_w_owner hold when the module is loaded
Uids == {0, 1000, 2000}

\* a task's credentials: current_uid().val, current_euid().val and
\* capable(CAP_DAC_OVERRIDE)
Creds == [uid : Uids, euid : Uids, cap : BOOLEAN]
NoCred == [uid |-> 0, euid |-> 0, cap |-> FALSE]

\* ---- scullsingle ----------------------------------------------------------
\* atomic_dec_and_test(&v) that also reports a negative result as zero
atomic_dec_and_test_le(v) == v - 1 <= 0

\* atomic_dec_and_test(&v), v the value before: TRUE iff the result is 0
atomic_dec_and_test(v) == v - 1 = 0

\* a task with no struct file on scullsingle.  during: the tasks that held
\* the device open when this task's scull_s_open began and have not released
\* it since; free_at_entry: no task held it open when the open began.
SingleTask ==
    [pc |-> "closed", ret |-> Ok(0), during |-> {}, free_at_entry |-> FALSE]

\* the tasks whose scull_s_open returned 0 and that have not released
s_holders == {q \in Tasks : s_task[q].pc = "opened"}

\* static atomic_t scull_s_available = ATOMIC_INIT(1)
single_Init ==
    /\ scull_s_available = 1
    /\ s_task = [p \in Tasks |-> SingleTask]

\* scull_s_open up to atomic_dec_and_test: the counter is decremented; the
\* open returns 0 when the result is 0
scull_s_open(p) ==
    /\ s_task[p].pc = "closed"
    /\ scull_s_available' = scull_s_available - 1
    /\ s_task' = [s_task EXCEPT ![p] =
                    [pc |-> IF atomic_dec_and_test(scull_s_available)
                            THEN "opened" ELSE "s_busy",
                     ret |-> Ok(0),
                     during |-> s_holders,
                     free_at_entry |-> (s_holders = {})]]
    /\ UNCHANGED single_frame

\* the failing branch of scull_s_open: atomic_inc, return -EBUSY
scull_s_open_busy(p) ==
    /\ s_task[p].pc = "s_busy"
    /\ scull_s_available' = scull_s_available + 1
    /\ s_task' = [s_task EXCEPT ![p].pc = "ret_closed", ![p].ret = Err("EBUSY")]
    /\ UNCHANGED single_frame

\* scull_s_release: atomic_inc, return 0
scull_s_release(p) ==
    /\ s_task[p].pc = "opened"
    /\ scull_s_available' = scull_s_available + 1
    /\ s_task' = [q \in Tasks |->
                    IF q = p THEN SingleTask
                    ELSE [s_task[q] EXCEPT !.during = @ \ {p}]]
    /\ UNCHANGED single_frame

\* the task is back in user space after a failed open
s_ret_to_user(p) ==
    /\ s_task[p].pc = "ret_closed"
    /\ s_task' = [s_task EXCEPT ![p] = SingleTask]
    /\ UNCHANGED <<scull_s_available, single_frame>>

single_Next ==
    \/ \E p \in Tasks : scull_s_open(p)
    \/ \E p \in Tasks : scull_s_open_busy(p)
    \/ \E p \in Tasks : scull_s_release(p)
    \/ \E p \in Tasks : s_ret_to_user(p)

\* ---- sculluid -------------------------------------------------------------
\* a task with no struct file on sculluid
UidTask == [pc |-> "closed", cred |-> NoCred, ret |-> Ok(0)]

\* static int scull_u_count; static uid_t scull_u_owner;
\* DEFINE_SPINLOCK(scull_u_lock)
uid_Init ==
    /\ scull_u_count = 0
    /\ scull_u_owner = 0
    /\ scull_u_lock = NoProc
    /\ u_task = [p \in UidTasks |-> UidTask]

\* open(2) enters scull_u_open with the caller's credentials
scull_u_open_call(p) ==
    /\ u_task[p].pc = "closed"
    /\ \E c \in Creds :
          u_task' = [u_task EXCEPT ![p].pc = "u_lock", ![p].cred = c]
    /\ UNCHANGED <<scull_u_count, scull_u_owner, scull_u_lock, uid_frame>>

\* spin_lock(scull_u_lock) of scull_u_open (the source omits the &, which
\* does not compile; the lock is taken as the comment next to it says): the
\* task spins until the lock is free
scull_u_open_lock(p) ==
    /\ u_task[p].pc = "u_lock"
    /\ scull_u_lock = NoProc
    /\ scull_u_lock' = p
    /\ u_task' = [u_task EXCEPT ![p].pc = "u_body"]
    /\ UNCHANGED <<scull_u_count, scull_u_owner, uid_frame>>

\* the test of scull_u_open: "if all of the conditions evaluate to true,
\* then open failed"
scull_u_busy(c) ==
    /\ scull_u_count # 0
    /\ scull_u_owner # c.uid
    /\ scull_u_owner # c.euid
    /\ ~c.cap

\* scull_u_open_body that does not look at the effective uid
scull_u_open_body_no_euid(p) ==
    /\ u_task[p].pc = "u_body"
    /\ IF /\ scull_u_count # 0
          /\ scull_u_owner # u_task[p].cred.uid
          /\ ~u_task[p].cred.cap
       THEN /\ u_task' = [u_task EXCEPT ![p].pc = "ret_closed",
                                        ![p].ret = Err("EBUSY")]
            /\ UNCHANGED <<scull_u_count, scull_u_owner>>
       ELSE /\ scull_u_owner' = IF scull_u_count = 0
                                THEN u_task[p].cred.uid ELSE scull_u_owner
            /\ scull_u_count' = scull_u_count + 1
            /\ u_task' = [u_task EXCEPT ![p].pc = "opened", ![p].ret = Ok(0)]
    /\ scull_u_lock' = NoProc
    /\ UNCHANGED uid_frame

\* the locked section of scull_u_open and its return: -EBUSY, or the owner
\* is recorded by the first opener, the count incremented, and 0 returned
scull_u_open_body(p) ==
    /\ u_task[p].pc = "u_body"
    /\ IF scull_u_busy(u_task[p].cred)
       THEN /\ u_task' = [u_task EXCEPT ![p].pc = "ret_closed",
                                        ![p].ret = Err("EBUSY")]
            /\ UNCHANGED <<scull_u_count, scull_u_owner>>
       ELSE /\ scull_u_owner' = IF scull_u_count = 0
                                THEN u_task[p].cred.uid ELSE scull_u_owner
            /\ scull_u_count' = scull_u_count + 1
            /\ u_task' = [u_task EXCEPT ![p].pc = "opened", ![p].ret = Ok(0)]
    /\ scull_u_lock' = NoProc
    /\ UNCHANGED uid_frame

\* close(2) of the last reference enters scull_u_release
scull_u_release_call(p) ==
    /\ u_task[p].pc = "opened"
    /\ u_task' = [u_task EXCEPT ![p].pc = "urel_lock"]
    /\ UNCHANGED <<scull_u_count, scull_u_owner, scull_u_lock, uid_frame>>

\* spin_lock(&scull_u_lock) of scull_u_release
scull_u_release_lock(p) ==
    /\ u_task[p].pc = "urel_lock"
    /\ scull_u_lock = NoProc
    /\ scull_u_lock' = p
    /\ u_task' = [u_task EXCEPT ![p].pc = "urel_body"]
    /\ UNCHANGED <<scull_u_count, scull_u_owner, uid_frame>>

\* scull_u_count--; spin_unlock; return 0
scull_u_release_body(p) ==
    /\ u_task[p].pc = "urel_body"
    /\ scull_u_count' = scull_u_count - 1
    /\ scull_u_lock' = NoProc
    /\ u_task' = [u_task EXCEPT ![p] = UidTask]
    /\ UNCHANGED <<scull_u_owner, uid_frame>>

\* the task is back in user space after a failed open
u_ret_to_user(p) ==
    /\ u_task[p].pc = "ret_closed"
    /\ u_task' = [u_task EXCEPT ![p] = UidTask]
    /\ UNCHANGED <<scull_u_count, scull_u_owner, scull_u_lock, uid_frame>>

uid_Next ==
    \/ \E p \in UidTasks : scull_u_open_call(p)
    \/ \E p \in UidTasks : scull_u_open_lock(p)
    \/ \E p \in UidTasks : scull_u_open_body(p)
    \/ \E p \in UidTasks : scull_u_release_call(p)
    \/ \E p \in UidTasks : scull_u_release_lock(p)
    \/ \E p \in UidTasks : scull_u_release_body(p)
    \/ \E p \in UidTasks : u_ret_to_user(p)

\* ---- scullwuid ------------------------------------------------------------
\* a task with no struct file on scullwuid.  heldby: the tasks of a foreign
\* uid that held the device open when this task's scull_w_open began;
\* during: those of them that have not released it since.
WuidTask ==
    [pc |-> "closed", cred |-> NoCred, nonblock |-> FALSE, ret |-> Ok(0),
     sig |-> FALSE, tstate |-> "RUNNING", heldby |-> {}, during |-> {}]

\* static int scull_w_count; static uid_t scull_w_owner;
\* DECLARE_WAIT_QUEUE_HEAD(scull_w_wait); DEFINE_SPINLOCK(scull_w_lock)
wuid_Init ==
    /\ scull_w_count = 0
    /\ scull_w_owner = 0
    /\ scull_w_lock = NoProc
    /\ scull_w_wait = {}
    /\ w_task = [p \in UidTasks |-> WuidTask]

\* scull_w_available() for a caller with credentials c
scull_w_available(c) ==
    \/ scull_w_count = 0
    \/ scull_w_owner = c.uid
    \/ scull_w_owner = c.euid
    \/ c.cap

\* the tasks whose scull_w_open returned 0 and whose scull_w_release has not
\* completed
w_holders == {q \in UidTasks : w_task[q].pc \in {"opened", "wrel_lock", "wrel_body"}}

\* spin_lock(&scull_w_lock) / spin_unlock(&scull_w_lock): the value of the
\* lock afterwards
w_locked(p) == IF config_smp THEN p ELSE scull_w_lock
w_unlocked == IF config_smp THEN NoProc ELSE scull_w_lock

\* open(2) enters scull_w_open with the caller's credentials and f_flags
scull_w_open_call(p) ==
    /\ "scullwuid" \in dev_nodes
    /\ w_task[p].pc = "closed"
    /\ scull_w_count > -MaxReleases
    /\ \E c \in Creds, nb \in BOOLEAN :
          LET foreign == {q \in w_holders :
                             /\ w_task[q].cred.uid # c.uid
                             /\ w_task[q].cred.uid # c.euid}
          IN w_task' = [w_task EXCEPT ![p] =
                          [WuidTask EXCEPT !.pc = "w_lock", !.cred = c,
                                           !.nonblock = nb,
                                           !.heldby = foreign,
                                           !.during = foreign]]
    /\ UNCHANGED <<scull_w_count, scull_w_owner, scull_w_lock, scull_w_wait,
                   wuid_frame>>

\* spin_lock(&scull_w_lock) of scull_w_open, before the loop and at its end:
\* the task spins until the lock is free
scull_w_open_lock(p) ==
    /\ w_task[p].pc = "w_lock"
    /\ config_smp => scull_w_lock = NoProc
    /\ scull_w_lock' = w_locked(p)
    /\ w_task' = [w_task EXCEPT ![p].pc = "w_test"]
    /\ UNCHANGED <<scull_w_count, scull_w_owner, scull_w_wait, wuid_frame>>

\* while(!scull_w_available()) of scull_w_open.  Not available: spin_unlock,
\* then -EAGAIN with O_NONBLOCK, else on to wait_event_interruptible.
\* Available: the function trims the device and returns 0; it neither
\* records the owner, nor increments scull_w_count, nor releases the lock.
scull_w_open_test(p) ==
    /\ w_task[p].pc = "w_test"
    /\ IF scull_w_available(w_task[p].cred)
       THEN /\ w_task' = [w_task EXCEPT ![p].pc = "opened", ![p].ret = Ok(0)]
            /\ UNCHANGED scull_w_lock
       ELSE /\ scull_w_lock' = w_unlocked
            /\ w_task' = [w_task EXCEPT ![p] =
                            IF @.nonblock
                            THEN [@ EXCEPT !.pc = "ret_closed",
                                           !.ret = Err("EAGAIN")]
                            ELSE [@ EXCEPT !.pc = "w_wait"]]
    /\ UNCHANGED <<scull_w_count, scull_w_owner, scull_w_wait, wuid_frame>>

\* wait_event_interruptible(scull_w_wait, scull_w_available()): the condition
\* holds and the task goes on to spin_lock; or a signal is pending and the
\* open returns -ERESTARTSYS; or the task sleeps on the queue
scull_w_open_wait(p) ==
    /\ w_task[p].pc = "w_wait"
    /\ IF scull_w_available(w_task[p].cred)
       THEN /\ w_task' = [w_task EXCEPT ![p].pc = "w_lock"]
            /\ scull_w_wait' = scull_w_wait \ {p}
       ELSE IF w_task[p].sig
       THEN /\ w_task' = [w_task EXCEPT ![p].pc = "ret_closed",
                                        ![p].ret = Err("ERESTARTSYS")]
            /\ scull_w_wait' = scull_w_wait \ {p}
       ELSE /\ w_task' = [w_task EXCEPT ![p].pc = "w_sleep",
                                        ![p].tstate = "INTERRUPTIBLE"]
            /\ scull_w_wait' = scull_w_wait \cup {p}
    /\ UNCHANGED <<scull_w_count, scull_w_owner, scull_w_lock, wuid_frame>>

\* schedule() inside wait_event_interruptible returns once the task has been
\* made runnable
scull_w_open_wakeup(p) ==
    /\ w_task[p].pc = "w_sleep"
    /\ w_task[p].tstate = "RUNNING"
    /\ w_task' = [w_task EXCEPT ![p].pc = "w_wait"]
    /\ UNCHANGED <<scull_w_count, scull_w_owner, scull_w_lock, scull_w_wait,
                   wuid_frame>>

\* a signal arrives at a task that waits in scull_w_open
w_deliver_signal(p) ==
    /\ w_task[p].pc \in {"w_wait", "w_sleep"}
    /\ ~w_task[p].sig
    /\ w_task' = [w_task EXCEPT ![p].sig = TRUE, ![p].tstate = "RUNNING"]
    /\ UNCHANGED <<scull_w_count, scull_w_owner, scull_w_lock, scull_w_wait,
                   wuid_frame>>

\* close(2) of the last reference enters scull_w_release
scull_w_release_call(p) ==
    /\ w_task[p].pc = "opened"
    /\ w_task' = [w_task EXCEPT ![p].pc = "wrel_lock"]
    /\ UNCHANGED <<scull_w_count, scull_w_owner, scull_w_lock, scull_w_wait,
                   wuid_frame>>

\* spin_lock(&scull_w_lock) of scull_w_release
scull_w_release_lock(p) ==
    /\ w_task[p].pc = "wrel_lock"
    /\ config_smp => scull_w_lock = NoProc
    /\ scull_w_lock' = w_locked(p)
    /\ w_task' = [w_task EXCEPT ![p].pc = "wrel_body"]
    /\ UNCHANGED <<scull_w_count, scull_w_owner, scull_w_wait, wuid_frame>>

\* scull_w_count--; temp = scull_w_count; spin_unlock; if(temp == 0)
\* wake_up_interruptible_sync(&scull_w_wait); return 0
scull_w_release_body(p) ==
    /\ w_task[p].pc = "wrel_body"
    /\ scull_w_count' = scull_w_count - 1
    /\ scull_w_lock' = w_unlocked
    /\ LET temp == scull_w_count - 1
           woken == IF temp = 0
                    THEN {q \in scull_w_wait : w_task[q].tstate = "INTERRUPTIBLE"}
                    ELSE {}
       IN /\ scull_w_wait' = scull_w_wait \ woken
          /\ w_task' = [q \in UidTasks |->
                          IF q = p THEN WuidTask
                          ELSE [w_task[q] EXCEPT
                                  !.during = @ \ {p},
                                  !.tstate = IF q \in woken
                                             THEN "RUNNING" ELSE @]]
    /\ UNCHANGED <<scull_w_owner, wuid_frame>>

\* the task is back in user space after a failed open
w_ret_to_user(p) ==
    /\ w_task[p].pc = "ret_closed"
    /\ w_task' = [w_task EXCEPT ![p] = WuidTask]
    /\ UNCHANGED <<scull_w_count, scull_w_owner, scull_w_lock, scull_w_wait,
                   wuid_frame>>

wuid_Next ==
    \/ \E p \in UidTasks : scull_w_open_call(p)
    \/ \E p \in UidTasks : scull_w_open_lock(p)
    \/ \E p \in UidTasks : scull_w_open_test(p)
    \/ \E p \in UidTasks : scull_w_open_wait(p)
    \/ \E p \in UidTasks : scull_w_open_wakeup(p)
    \/ \E p \in UidTasks : w_deliver_signal(p)
    \/ \E p \in UidTasks : scull_w_release_call(p)
    \/ \E p \in UidTasks : scull_w_release_lock(p)
    \/ \E p \in UidTasks : scull_w_release_body(p)
    \/ \E p \in UidTasks : w_ret_to_user(p)

\* ---- scullpriv ------------------------------------------------------------
\* the controlling terminals (tty_devnum of current->signal->tty); NoTty:
\* current->signal->tty is NULL
Ttys == {"tty1", "tty2"}
NoTty == "notty"

\* a NULL struct scull_dev pointer; the devices of the list items are
\* numbered in the order of their allocation
NoDev == 0

\* a task with no struct file on scullpriv
PrivTask ==
    [pc |-> "closed", tty |-> NoTty, key |-> NoTty, dev |-> NoDev,
     private_data |-> NoDev, ret |-> Ok(0)]

\* static LIST_HEAD(scull_c_list); static DEFINE_SPINLOCK(scull_c_lock)
priv_Init ==
    /\ scull_c_list = <<>>
    /\ scull_c_lock = NoProc
    /\ c_task = [p \in Tasks |-> PrivTask]

\* scull_c_open up to spin_lock: -EINVAL when the caller has no controlling
\* terminal, else key = tty_devnum(current->signal->tty)
scull_c_open_call(p) ==
    /\ c_task[p].pc = "closed"
    /\ \E t \in Ttys \cup {NoTty} :
          c_task' = [c_task EXCEPT ![p] =
                       IF t = NoTty
                       THEN [@ EXCEPT !.pc = "ret_closed", !.tty = t,
                                      !.ret = Err("EINVAL")]
                       ELSE [@ EXCEPT !.pc = "c_lock", !.tty = t, !.key = t]]
    /\ UNCHANGED <<scull_c_list, scull_c_lock, priv_frame>>

\* spin_lock(&scull_c_lock) that does not wait for the holder
scull_c_open_lock_no_wait(p) ==
    /\ c_task[p].pc = "c_lock"
    /\ scull_c_lock' = p
    /\ c_task' = [c_task EXCEPT ![p].pc = "c_search"]
    /\ UNCHANGED <<scull_c_list, priv_frame>>

\* spin_lock(&scull_c_lock): the task spins until the lock is free
scull_c_open_lock(p) ==
    /\ c_task[p].pc = "c_lock"
    /\ scull_c_lock = NoProc
    /\ scull_c_lock' = p
    /\ c_task' = [c_task EXCEPT ![p].pc = "c_search"]
    /\ UNCHANGED <<scull_c_list, priv_frame>>

\* the positions of the list whose item has the key
Matches(key) == {i \in 1 .. Len(scull_c_list) : scull_c_list[i].key = key}

\* list_for_each_entry of scull_c_lookfor_device: the device of the first
\* item with the key, or on to the allocation
scull_c_lookfor_search(p) ==
    /\ c_task[p].pc = "c_search"
    /\ LET m == Matches(c_task[p].key)
       IN c_task' = [c_task EXCEPT ![p] =
                       IF m # {}
                       THEN [@ EXCEPT !.pc = "c_unlock",
                                      !.dev = scull_c_list[
                                          CHOOSE i \in m : \A j \in m : i <= j].dev]
                       ELSE [@ EXCEPT !.pc = "c_alloc"]]
    /\ UNCHANGED <<scull_c_list, scull_c_lock, priv_frame>>

\* the rest of scull_c_lookfor_device: kmalloc fails and NULL is returned,
\* or the new item gets the key and list_add puts it at the head
scull_c_lookfor_alloc(p) ==
    /\ c_task[p].pc = "c_alloc"
    /\ \E alloc_ok \in BOOLEAN :
          IF alloc_ok
          THEN LET lptr == [key |-> c_task[p].key,
                            dev |-> Len(scull_c_list) + 1]
               IN /\ scull_c_list' = <<lptr>> \o scull_c_list
                  /\ c_task' = [c_task EXCEPT ![p].pc = "c_unlock",
                                              ![p].dev = lptr.dev]
          ELSE /\ c_task' = [c_task EXCEPT ![p].pc = "c_unlock",
                                           ![p].dev = NoDev]
               /\ UNCHANGED scull_c_list
    /\ UNCHANGED <<scull_c_lock, priv_frame>>

\* spin_unlock(&scull_c_lock) and the rest of scull_c_open: -ENOMEM when dev
\* is NULL, else filp->private_data = dev and 0
scull_c_open_unlock(p) ==
    /\ c_task[p].pc = "c_unlock"
    /\ scull_c_lock' = NoProc
    /\ c_task' = [c_task EXCEPT ![p] =
                    IF @.dev = NoDev
                    THEN [@ EXCEPT !.pc = "ret_closed", !.ret = Err("ENOMEM")]
                    ELSE [@ EXCEPT !.pc = "opened", !.private_data = c_task[p].dev,
                                   !.ret = Ok(0)]]
    /\ UNCHANGED <<scull_c_list, priv_frame>>

\* scull_c_release: "nothing to do, because the device is persistent"
scull_c_release(p) ==
    /\ c_task[p].pc = "opened"
    /\ c_task' = [c_task EXCEPT ![p] = PrivTask]
    /\ UNCHANGED <<scull_c_list, scull_c_lock, priv_frame>>

\* the task is back in user space after a failed open
c_ret_to_user(p) ==
    /\ c_task[p].pc = "ret_closed"
    /\ c_task' = [c_task EXCEPT ![p] = PrivTask]
    /\ UNCHANGED <<scull_c_list, scull_c_lock, priv_frame>>

\* scull_access_cleanup, the part for the cloned devices: every item is
\* unlinked and freed.  The module is unloaded only when no file of its
\* devices is open and no task is inside one of its methods (.owner =
\* THIS_MODULE); the state is then that of a newly loaded module.
scull_access_cleanup ==
    /\ \A p \in Tasks : c_task[p].pc = "closed"
    /\ scull_c_list # <<>>
    /\ scull_c_list' = <<>>
    /\ UNCHANGED <<scull_c_lock, c_task, priv_frame>>

priv_Next ==
    \/ \E p \in Tasks : scull_c_open_call(p)
    \/ \E p \in Tasks : scull_c_open_lock(p)
    \/ \E p \in Tasks : scull_c_lookfor_search(p)
    \/ \E p \in Tasks : scull_c_lookfor_alloc(p)
    \/ \E p \in Tasks : scull_c_open_unlock(p)
    \/ \E p \in Tasks : scull_c_release(p)
    \/ \E p \in Tasks : c_ret_to_user(p)
    \/ scull_access_cleanup

(***************************************************************************)
(*                        bare scull (scull/main.c)                        *)
(***************************************************************************)
\* a byte of a kmalloc'ed block that nothing has stored into yet: its value
\* is whatever the allocator left there
Heap == 0
\* history value: no byte has been stored at this offset
NoByte == -1

\* a NULL pointer to an array of quanta, or to a quantum
NULL == <<>>
\* struct scull_qset after kmalloc and memset 0 (the next pointer is the
\* position in the list)
EmptyQset == [data |-> NULL]

\* the offsets a file position may take
FilePos == 0 .. MaxPos

\* scull_read: listitem, quantum index and offset in the quantum of *f_pos
scull_read_pos(f_pos, quantum, qset) ==
    LET itemsize == quantum * qset
        item == f_pos \div itemsize
        rest == f_pos % itemsize
    IN  [item |-> item, s_pos |-> rest \div quantum, q_pos |-> rest % quantum]

\* scull_write with the quantum index taken for the offset in the quantum
scull_write_pos_div(f_pos, quantum, qset) ==
    LET itemsize == quantum * qset
        item == f_pos \div itemsize
        rest == f_pos % itemsize
    IN  [item |-> item, s_pos |-> rest \div quantum, q_pos |-> rest \div quantum]

\* scull_write: listitem, quantum index and offset in the quantum of *f_pos
scull_write_pos(f_pos, quantum, qset) ==
    LET itemsize == quantum * qset
        item == f_pos \div itemsize
        rest == f_pos % itemsize
    IN  [item |-> item, s_pos |-> rest \div quantum, q_pos |-> rest % quantum]

\* scull_follow(dev, item): the list is walked item times from the head and
\* every missing node on the way is allocated and zero-filled; got is the
\* number of allocations that succeed.  Gives the list afterwards and the
\* position (from 1) of the node reached, 0 for NULL.
Missing(data, item) == IF Len(data) > item THEN 0 ELSE item + 1 - Len(data)
\* the numbers of nodes scull_follow may get from kmalloc
FollowGets(data, item) ==
    IF sc_env.faults THEN 0 .. Missing(data, item) ELSE {Missing(data, item)}

scull_follow(data, item, got) ==
    LET grown == data \o [i \in 1 .. got |-> EmptyQset]
    IN  [data |-> grown,
         dptr |-> IF Len(grown) > item THEN item + 1 ELSE 0]

\* the bytes count of the block at from (all from 1), as copy_to_user reads
Bytes(block, from, count) == [i \in 1 .. count |-> block[from + i - 1]]

\* the block after copy_from_user stored the bytes of buf at from
Stored(block, from, buf) ==
    [i \in 1 .. Len(block) |->
        IF i >= from /\ i < from + Len(buf) THEN buf[i - from + 1]
        ELSE block[i]]

\* what kmalloc(quantum) returns on success: a block of that many bytes
NewQuantum(quantum) == [i \in 1 .. quantum |-> Heap]
\* what kmalloc(qset * sizeof(char *)) holds after the memset
NewArray(qset) == [i \in 1 .. qset |-> NULL]

\* what a scull_trim found allocated and what it freed (none: no trim ran)
NoTrim == [nodes |-> 0, arrays |-> 0, quanta |-> 0,
           nodes_freed |-> 0, arrays_freed |-> 0, quanta_freed |-> 0]

ScullTask ==
    [pc |-> "closed", f_mode |-> {}, f_pos |-> 0,
     count |-> 0, rbuf |-> <<>>, trim |-> NoTrim, ret |-> Ok(0)]

scull_Init ==
    /\ scull_quantum = SCULL_QUANTUM
    /\ scull_qset = SCULL_QSET
    /\ scull_dev = [data |-> <<>>, quantum |-> SCULL_QUANTUM,
                    qset |-> SCULL_QSET, size |-> 0, lock |-> NoProc]
    /\ sc_task = [p \in Proc |-> ScullTask]
    /\ shadow = [f \in 0 .. MaxPos - 1 |-> NoByte]
    /\ contig = TRUE

\* the system call returns r to user space
ScReturn(t, r, nextpc) == [t EXCEPT !.pc = nextpc, !.ret = r]

sc_ret_to_user(p) ==
    /\ sc_task[p].pc \in {"ret_idle", "ret_closed"}
    /\ UNCHANGED scull_frame
    /\ sc_task' = [sc_task EXCEPT ![p] =
          [@ EXCEPT !.pc = IF @ = "ret_idle" THEN "idle" ELSE "closed",
                    !.count = 0, !.rbuf = <<>>, !.trim = NoTrim,
                    !.ret = Ok(0)]]
    /\ UNCHANGED <<scull_dev, scull_quantum, scull_qset, sc_env, shadow,
                   contig>>

\* ---- scull_trim -----------------------------------------------------------
Allocated(seq) == {i \in 1 .. Len(seq) : seq[i] # NULL}
QuantaOf(node) == IF node.data = NULL THEN 0
                  ELSE Cardinality(Allocated(node.data))
RECURSIVE QuantaIn(_)
QuantaIn(data) == IF data = <<>> THEN 0
                  ELSE QuantaOf(Head(data)) + QuantaIn(Tail(data))
ArraysIn(data) == Cardinality({i \in 1 .. Len(data) : data[i].data # NULL})

\* the loop of scull_trim reads next, which nothing assigns: after the first
\* node the loop goes where that value points.  "null": the value is NULL and
\* the loop ends; "loop": it points at a node of the list again and the loop
\* never ends; "wild": it points nowhere and the kernel stops the process.
TrimOutcomes(d) == IF d.data = <<>> THEN {"null"} ELSE {"null", "loop", "wild"}

\* the first pass of the loop: the quanta and the array of the head are
\* freed, the node itself stays allocated
FirstPass(data) ==
    IF data = <<>> THEN data ELSE [data EXCEPT ![1] = EmptyQset]

TrimLog(d) ==
    [nodes |-> Len(d.data), arrays |-> ArraysIn(d.data),
     quanta |-> QuantaIn(d.data),
     nodes_freed |-> 0,
     arrays_freed |-> IF d.data = <<>> THEN 0 ELSE ArraysIn(<<Head(d.data)>>),
     quanta_freed |-> IF d.data = <<>> THEN 0 ELSE QuantaOf(Head(d.data))]

\* the device when scull_trim returns
scull_trim(d) ==
    [d EXCEPT !.data = <<>>, !.size = 0,
              !.quantum = scull_quantum, !.qset = scull_qset]

\* ---- scull_open -----------------------------------------------------------
\* the processes inside the locked section of scull_read or scull_write
sc_locked == {q \in Proc : sc_task[q].pc \in {"rd_body", "wr_body"}}

\* a trim that frees memory while another process is inside its locked
\* section races with it: the other process either still sees its data
\* ("none") or touches freed memory and is stopped by the kernel
Victims(p, d) == IF d.data = <<>> THEN {NoProc}
                 ELSE {NoProc} \cup (sc_locked \ {p})

Stopped(tasks, q) == IF q = NoProc THEN tasks
                     ELSE [tasks EXCEPT ![q].pc = "oops"]

\* open(2): O_RDONLY, O_WRONLY or O_RDWR.  A write-only open runs scull_trim,
\* and takes no lock for it.
scull_open(p) ==
    /\ "scull" \in dev_nodes
    /\ sc_task[p].pc = "closed"
    /\ p \in sc_env.users
    /\ UNCHANGED scull_frame
    /\ \E fm \in sc_env.modes :
          IF fm = {FMODE_WRITE}
          THEN \E outcome \in TrimOutcomes(scull_dev),
                  victim \in Victims(p, scull_dev) :
                  /\ IF outcome = "null"
                     THEN /\ scull_dev' = scull_trim(scull_dev)
                          /\ shadow' = [f \in 0 .. MaxPos - 1 |-> NoByte]
                          /\ contig' = (victim = NoProc)
                          /\ sc_task' = [Stopped(sc_task, victim) EXCEPT ![p] =
                                ScReturn([@ EXCEPT !.f_mode = fm, !.f_pos = 0,
                                                   !.trim = TrimLog(scull_dev)],
                                         Ok(0), "ret_idle")]
                     ELSE /\ scull_dev' = [scull_dev EXCEPT
                                              !.data = FirstPass(@)]
                          /\ shadow' = [f \in 0 .. MaxPos - 1 |->
                                IF f < scull_dev.quantum * scull_dev.qset
                                THEN NoByte ELSE shadow[f]]
                          /\ contig' = FALSE
                          /\ sc_task' = [Stopped(sc_task, victim) EXCEPT ![p] =
                                [@ EXCEPT !.f_mode = fm, !.f_pos = 0,
                                          !.trim = TrimLog(scull_dev),
                                          !.pc = IF outcome = "loop"
                                                 THEN "trim_loop" ELSE "oops"]]
          ELSE /\ sc_task' = [sc_task EXCEPT ![p] =
                     ScReturn([@ EXCEPT !.f_mode = fm, !.f_pos = 0],
                              Ok(0), "ret_idle")]
               /\ UNCHANGED <<scull_dev, shadow, contig>>
    /\ UNCHANGED <<scull_quantum, scull_qset, sc_env>>

\* ---- scull_release --------------------------------------------------------
scull_release(p) ==
    /\ sc_task[p].pc = "idle"
    /\ UNCHANGED scull_frame
    /\ sc_task' = [sc_task EXCEPT ![p] =
          ScReturn([@ EXCEPT !.f_mode = {}, !.f_pos = 0], Ok(0), "ret_closed")]
    /\ UNCHANGED <<scull_dev, scull_quantum, scull_qset, sc_env, shadow,
                   contig>>

\* ---- scull_read -----------------------------------------------------------
\* mutex_lock_interruptible(&dev->lock): taken at once when free
sc_lock_call(p, frompc, okpc, waitpc) ==
    /\ sc_task[p].pc = frompc
    /\ IF scull_dev.lock = NoProc
       THEN /\ scull_dev' = [scull_dev EXCEPT !.lock = p]
            /\ sc_task' = [sc_task EXCEPT ![p].pc = okpc]
       ELSE /\ sc_task' = [sc_task EXCEPT ![p].pc = waitpc]
            /\ UNCHANGED scull_dev

scull_read_call(p) ==
    /\ FMODE_READ \in sc_task[p].f_mode
    /\ UNCHANGED scull_frame
    /\ sc_lock_call(p, "idle", "rd_body", "rd_lock")
    /\ UNCHANGED <<scull_quantum, scull_qset, sc_env, shadow, contig>>

\* the sleeper gets the mutex once it is free
scull_read_lock(p) ==
    /\ scull_dev.lock = NoProc
    /\ UNCHANGED scull_frame
    /\ sc_lock_call(p, "rd_lock", "rd_body", "rd_lock")
    /\ UNCHANGED <<scull_quantum, scull_qset, sc_env, shadow, contig>>

\* a signal ends the sleep in mutex_lock_interruptible: -ERESTARTSYS
sc_deliver_signal(p) ==
    /\ sc_task[p].pc \in {"rd_lock", "wr_lock"}
    /\ UNCHANGED scull_frame
    /\ sc_task' = [sc_task EXCEPT ![p] =
                      ScReturn(@, Err("ERESTARTSYS"), "ret_idle")]
    /\ UNCHANGED <<scull_dev, scull_quantum, scull_qset, sc_env, shadow,
                   contig>>

\* from the test of *f_pos against dev->size to the return, the mutex held
scull_read_body(p) ==
    /\ sc_task[p].pc = "rd_body"
    /\ UNCHANGED scull_frame
    /\ \E count \in 0 .. MaxCount,
          fault \in (IF sc_env.faults THEN BOOLEAN ELSE {FALSE}) :
       LET d == scull_dev
           f_pos == sc_task[p].f_pos
           quantum == d.quantum
           qset == d.qset
           clipped == IF f_pos + count > d.size THEN d.size - f_pos ELSE count
           pos == scull_read_pos(f_pos, quantum, qset)
       IN  \E got \in FollowGets(d.data, pos.item) :
           LET fol == scull_follow(d.data, pos.item, got)
               dptr == fol.dptr
               hole == \/ dptr = 0
                       \/ fol.data[dptr].data = NULL
                       \/ fol.data[dptr].data[pos.s_pos + 1] = NULL
               n == IF clipped > quantum - pos.q_pos
                    THEN quantum - pos.q_pos ELSE clipped
               retval == IF f_pos >= d.size \/ hole THEN Ok(0)
                         ELSE IF fault /\ n > 0 THEN Err("EFAULT")
                         ELSE Ok(n)
               copied == f_pos < d.size /\ ~hole /\ ~(fault /\ n > 0)
           IN  /\ scull_dev' =
                     [d EXCEPT !.lock = NoProc,
                               !.data = IF f_pos >= d.size THEN @ ELSE fol.data]
               /\ sc_task' = [sc_task EXCEPT ![p] =
                     ScReturn([@ EXCEPT
                                 !.count = count,
                                 !.f_pos = IF copied THEN f_pos + n ELSE @,
                                 !.rbuf = IF copied
                                          THEN Bytes(fol.data[dptr].data[pos.s_pos + 1],
                                                     pos.q_pos + 1, n)
                                          ELSE <<>>],
                              retval, "ret_idle")]
    /\ UNCHANGED <<scull_quantum, scull_qset, sc_env, shadow, contig>>

\* ---- scull_write ----------------------------------------------------------
scull_write_call(p) ==
    /\ FMODE_WRITE \in sc_task[p].f_mode
    /\ UNCHANGED scull_frame
    /\ sc_lock_call(p, "idle", "wr_body", "wr_lock")
    /\ UNCHANGED <<scull_quantum, scull_qset, sc_env, shadow, contig>>

scull_write_lock(p) ==
    /\ scull_dev.lock = NoProc
    /\ UNCHANGED scull_frame
    /\ sc_lock_call(p, "wr_lock", "wr_body", "wr_lock")
    /\ UNCHANGED <<scull_quantum, scull_qset, sc_env, shadow, contig>>

\* dev->size set to the end of the write whatever it was
scull_new_size_end(size, f_pos) == f_pos

\* dev->size after a write that moved *f_pos to f_pos
scull_new_size(size, f_pos) == IF size < f_pos THEN f_pos ELSE size

\* the choices of an allocation: it can fail only when it is made
AllocChoices(needed) == IF needed /\ sc_env.faults THEN BOOLEAN ELSE {TRUE}

\* from the decomposition of *f_pos to the return, the mutex held.  left is
\* what copy_from_user returns: the number of bytes it could not copy.
scull_write_body(p) ==
    /\ sc_task[p].pc = "wr_body"
    /\ UNCHANGED scull_frame
    /\ \E count \in 0 .. MaxCount :
       /\ sc_task[p].f_pos + count <= MaxPos
       /\ \E buf \in [1 .. count -> sc_env.bytes] :
          LET d == scull_dev
              f_pos == sc_task[p].f_pos
              quantum == d.quantum
              qset == d.qset
              pos == scull_write_pos(f_pos, quantum, qset)
          IN  \E got \in FollowGets(d.data, pos.item) :
              LET fol == scull_follow(d.data, pos.item, got)
                  dptr == fol.dptr
              IN  IF dptr = 0
                  THEN /\ scull_dev' = [d EXCEPT !.lock = NoProc,
                                                 !.data = fol.data]
                       /\ sc_task' = [sc_task EXCEPT ![p] =
                             ScReturn([@ EXCEPT !.count = count],
                                      Err("ENOMEM"), "ret_idle")]
                       /\ UNCHANGED <<shadow, contig>>
                  ELSE
                  \E array_ok \in AllocChoices(fol.data[dptr].data = NULL) :
                  LET array == IF fol.data[dptr].data # NULL
                               THEN fol.data[dptr].data
                               ELSE IF array_ok THEN NewArray(qset) ELSE NULL
                  IN  IF array = NULL
                      THEN /\ scull_dev' = [d EXCEPT !.lock = NoProc,
                                                     !.data = fol.data]
                           /\ sc_task' = [sc_task EXCEPT ![p] =
                                 ScReturn([@ EXCEPT !.count = count],
                                          Err("ENOMEM"), "ret_idle")]
                           /\ UNCHANGED <<shadow, contig>>
                      ELSE
                      \E quantum_ok \in AllocChoices(array[pos.s_pos + 1] = NULL) :
                      LET block == IF array[pos.s_pos + 1] # NULL
                                   THEN array[pos.s_pos + 1]
                                   ELSE IF quantum_ok THEN NewQuantum(quantum)
                                   ELSE NULL
                          n == IF count > quantum - pos.q_pos
                               THEN quantum - pos.q_pos ELSE count
                      IN  IF block = NULL
                          THEN /\ scull_dev' =
                                     [d EXCEPT !.lock = NoProc,
                                               !.data = [fol.data EXCEPT
                                                   ![dptr].data = array]]
                               /\ sc_task' = [sc_task EXCEPT ![p] =
                                     ScReturn([@ EXCEPT !.count = count],
                                              Err("ENOMEM"), "ret_idle")]
                               /\ UNCHANGED <<shadow, contig>>
                          ELSE
                          \E left \in (IF sc_env.faults THEN 0 .. n ELSE {0}) :
                          LET done == n - left
                              stored == Stored(block, pos.q_pos + 1,
                                               SubSeq(buf, 1, done))
                              data1 == [fol.data EXCEPT ![dptr].data =
                                          [array EXCEPT ![pos.s_pos + 1] = stored]]
                              end == f_pos + n
                              size1 == IF left = 0
                                       THEN scull_new_size(d.size, end)
                                       ELSE d.size
                          IN  /\ scull_dev' = [d EXCEPT !.lock = NoProc,
                                                        !.data = data1,
                                                        !.size = size1]
                              /\ sc_task' = [sc_task EXCEPT ![p] =
                                    ScReturn([@ EXCEPT
                                       !.count = count,
                                       !.f_pos = IF left = 0 THEN end ELSE @],
                                       IF left = 0 THEN Ok(n) ELSE Err("EFAULT"),
                                       "ret_idle")]
                              /\ shadow' = [f \in 0 .. MaxPos - 1 |->
                                    IF f >= f_pos /\ f < f_pos + done
                                       /\ f < size1
                                    THEN buf[f - f_pos + 1] ELSE shadow[f]]
                              /\ contig' = (contig /\ (left # 0 \/ f_pos <= d.size))
    /\ UNCHANGED <<scull_quantum, scull_qset, sc_env>>

scull_Next ==
    \/ \E p \in Proc : scull_open(p)
    \/ \E p \in Proc : scull_release(p)
    \/ \E p \in Proc : scull_read_call(p)
    \/ \E p \in Proc : scull_read_lock(p)
    \/ \E p \in Proc : scull_read_body(p)
    \/ \E p \in Proc : scull_write_call(p)
    \/ \E p \in Proc : scull_write_lock(p)
    \/ \E p \in Proc : scull_write_body(p)
    \/ \E p \in Proc : sc_deliver_signal(p)
    \/ \E p \in Proc : sc_ret_to_user(p)

(***************************************************************************)
(*     The decomposition of a file position (scull/main.c, scullp/main.c)  *)
(***************************************************************************)
\* scullp_read: listitem, quantum index and offset in the quantum of *f_pos
scullp_read_pos(f_pos, quantum, qset) ==
    LET itemsize == quantum * qset
        item == f_pos \div itemsize
        rest == f_pos % itemsize
    IN  [item |-> item, s_pos |-> rest \div quantum, q_pos |-> rest % quantum]

\* scullp_write: q_pos is computed with the division that gives s_pos
scullp_write_pos(f_pos, quantum, qset) ==
    LET itemsize == quantum * qset
        item == f_pos \div itemsize
        rest == f_pos % itemsize
    IN  [item |-> item, s_pos |-> rest \div quantum, q_pos |-> rest \div quantum]

NoTriple == [fn |-> "none", item |-> 0, s_pos |-> 0, q_pos |-> 0]

Triple(fn, pos) ==
    [fn |-> fn, item |-> pos.item, s_pos |-> pos.s_pos, q_pos |-> pos.q_pos]

\* any file position and any positive quantum size and array length
decomp_Init ==
    /\ dc_arg \in [f_pos : 0 .. MaxF, quantum : 1 .. MaxQ, qset : 1 .. MaxS]
    /\ dc_res = NoTriple

\* no decomposition asked for
decomp_none ==
    /\ dc_arg = [f_pos |-> 0, quantum |-> 1, qset |-> 1]
    /\ dc_res = NoTriple

decompose_scull_read ==
    /\ dc_res' = Triple("scull_read",
                        scull_read_pos(dc_arg.f_pos, dc_arg.quantum, dc_arg.qset))
    /\ UNCHANGED <<dc_arg, decomp_frame>>

decompose_scull_write ==
    /\ dc_res' = Triple("scull_write",
                        scull_write_pos(dc_arg.f_pos, dc_arg.quantum, dc_arg.qset))
    /\ UNCHANGED <<dc_arg, decomp_frame>>

decompose_scullp_read ==
    /\ dc_res' = Triple("scullp_read",
                        scullp_read_pos(dc_arg.f_pos, dc_arg.quantum, dc_arg.qset))
    /\ UNCHANGED <<dc_arg, decomp_frame>>

decompose_scullp_write ==
    /\ dc_res' = Triple("scullp_write",
                        scullp_write_pos(dc_arg.f_pos, dc_arg.quantum, dc_arg.qset))
    /\ UNCHANGED <<dc_arg, decomp_frame>>

decomp_Next ==
    \/ decompose_scull_read
    \/ decompose_scull_write
    \/ decompose_scullp_read
    \/ decompose_scullp_write

(***************************************************************************)
(*                         scullp (scullp/main.c)                          *)
(***************************************************************************)
\* int scullp_qset, int scullp_order: module parameters, fixed at load time
scullp_qset == SCULLP_QSET
scullp_order == sp_env.order

\* PAGE_SIZE << order
Shl(a, order) == a * (2 ^ order)

\* struct scullp_dev after kmalloc and memset 0
EmptyNode == [data |-> NULL, order |-> 0]

\* what __get_free_pages(GFP_KERNEL, order) holds after the memset
NewPages(order) == [i \in 1 .. Shl(PAGE_SIZE, order) |-> 0]

ScullpTask ==
    [pc |-> "closed", f_mode |-> {}, f_pos |-> 0, rbuf |-> <<>>, ret |-> Ok(0)]

\* no fault handled; a process that has not mapped the device
NoFault == [off |-> -1, page |-> <<>>]
NoVma == [n |-> 0, ptes |-> {}, tmp |-> 0, vmf |-> NoFault]

scullp_Init ==
    /\ scullp_dev = [nodes |-> <<[data |-> NULL, order |-> scullp_order]>>,
                     vmas |-> 0, qset |-> scullp_qset, size |-> 0,
                     mutex |-> NoProc]
    /\ sp_task = [p \in Proc |-> ScullpTask]
    /\ sp_vma = [p \in Proc |-> NoVma]

sp_ret_to_user(p) ==
    /\ sp_task[p].pc \in {"ret_idle", "ret_closed"}
    /\ UNCHANGED scullp_frame
    /\ sp_task' = [sp_task EXCEPT ![p] =
          [@ EXCEPT !.pc = IF @ = "ret_idle" THEN "idle" ELSE "closed",
                    !.f_mode = IF sp_task[p].pc = "ret_idle" THEN @ ELSE {},
                    !.rbuf = <<>>, !.ret = Ok(0)]]
    /\ sp_vma' = [sp_vma EXCEPT ![p].vmf = NoFault]
    /\ UNCHANGED <<scullp_dev, sp_env>>

\* mutex_lock_interruptible(&dev->mutex): taken at once when free
sp_lock_call(p, frompc, okpc, waitpc) ==
    /\ sp_task[p].pc = frompc
    /\ IF scullp_dev.mutex = NoProc
       THEN /\ scullp_dev' = [scullp_dev EXCEPT !.mutex = p]
            /\ sp_task' = [sp_task EXCEPT ![p].pc = okpc]
       ELSE /\ sp_task' = [sp_task EXCEPT ![p].pc = waitpc]
            /\ UNCHANGED scullp_dev

\* mutex_unlock(&dev->mutex) left out
sp_mutex_unlock_kept(d) == d

\* mutex_unlock(&dev->mutex)
sp_mutex_unlock(d) == [d EXCEPT !.mutex = NoProc]

\* a signal ends the sleep in mutex_lock_interruptible: -ERESTARTSYS
sp_deliver_signal(p) ==
    /\ sp_task[p].pc \in {"po_lock", "rd_lock", "wr_lock"}
    /\ UNCHANGED scullp_frame
    /\ sp_task' = [sp_task EXCEPT ![p] =
          ScReturn(@, Err("ERESTARTSYS"),
                   IF @.pc = "po_lock" THEN "ret_closed" ELSE "ret_idle")]
    /\ UNCHANGED <<scullp_dev, sp_env, sp_vma>>

\* ---- scullp_trim ----------------------------------------------------------
\* the device after scullp_trim, and what it returns: with a mapping active
\* nothing is freed
scullp_trim(d) ==
    IF d.vmas # 0
    THEN [dev |-> d, ret |-> Err("EBUSY")]
    ELSE [dev |-> [d EXCEPT !.nodes = <<[data |-> NULL, order |-> scullp_order]>>,
                            !.size = 0, !.qset = scullp_qset],
          ret |-> Ok(0)]

\* ---- scullp_open ----------------------------------------------------------
\* a write-only open takes the mutex for the trim; any other open returns 0
scullp_open_call(p) ==
    /\ "scullp" \in dev_nodes
    /\ p \in sp_env.users
    /\ UNCHANGED scullp_frame
    /\ sp_task[p].pc = "closed"
    /\ \E fm \in sp_env.modes :
          IF fm = {FMODE_WRITE}
          THEN IF scullp_dev.mutex = NoProc
               THEN /\ scullp_dev' = [scullp_dev EXCEPT !.mutex = p]
                    /\ sp_task' = [sp_task EXCEPT ![p] =
                          [@ EXCEPT !.pc = "po_body", !.f_mode = fm]]
               ELSE /\ sp_task' = [sp_task EXCEPT ![p] =
                          [@ EXCEPT !.pc = "po_lock", !.f_mode = fm]]
                    /\ UNCHANGED scullp_dev
          ELSE /\ sp_task' = [sp_task EXCEPT ![p] =
                     ScReturn([@ EXCEPT !.f_mode = fm, !.f_pos = 0],
                              Ok(0), "ret_idle")]
               /\ UNCHANGED scullp_dev
    /\ UNCHANGED <<sp_env, sp_vma>>

scullp_open_lock(p) ==
    /\ scullp_dev.mutex = NoProc
    /\ UNCHANGED scullp_frame
    /\ sp_lock_call(p, "po_lock", "po_body", "po_lock")
    /\ UNCHANGED <<sp_env, sp_vma>>

\* scullp_trim under the mutex, mutex_unlock, return 0
scullp_open_body(p) ==
    /\ sp_task[p].pc = "po_body"
    /\ UNCHANGED scullp_frame
    /\ scullp_dev' = sp_mutex_unlock(scullp_trim(scullp_dev).dev)
    /\ sp_task' = [sp_task EXCEPT ![p] =
          ScReturn([@ EXCEPT !.f_pos = 0], Ok(0), "ret_idle")]
    /\ UNCHANGED <<sp_env, sp_vma>>

\* ---- scullp_release -------------------------------------------------------
\* close(2) of the last reference to the struct file; a mapping holds one
scullp_release(p) ==
    /\ sp_task[p].pc = "idle"
    /\ sp_vma[p].n = 0
    /\ UNCHANGED scullp_frame
    /\ sp_task' = [sp_task EXCEPT ![p] =
          ScReturn([@ EXCEPT !.f_pos = 0], Ok(0), "ret_closed")]
    /\ UNCHANGED <<scullp_dev, sp_env, sp_vma>>

\* ---- scullp_follow --------------------------------------------------------
\* scullp_follow(dev, n): n steps from the device, every missing node
\* allocated and zero-filled on the way; got is the number of allocations
\* that succeed.  kmalloc's result is not tested: when an allocation fails
\* the memset writes through NULL and the kernel stops the process (dptr 0).
scullp_gets(nodes, n) ==
    IF sp_env.faults THEN 0 .. Missing(nodes, n) ELSE {Missing(nodes, n)}

scullp_follow(nodes, n, got) ==
    LET grown == nodes \o [i \in 1 .. got |-> EmptyNode]
    IN  [nodes |-> grown,
         dptr |-> IF Len(grown) > n THEN n + 1 ELSE 0]

\* ---- scullp_read ----------------------------------------------------------
scullp_read_call(p) ==
    /\ FMODE_READ \in sp_task[p].f_mode
    /\ UNCHANGED scullp_frame
    /\ sp_lock_call(p, "idle", "rd_body", "rd_lock")
    /\ UNCHANGED <<sp_env, sp_vma>>

scullp_read_lock(p) ==
    /\ scullp_dev.mutex = NoProc
    /\ UNCHANGED scullp_frame
    /\ sp_lock_call(p, "rd_lock", "rd_body", "rd_lock")
    /\ UNCHANGED <<sp_env, sp_vma>>

\* from the test of *f_pos against dev->size to the return
scullp_read_body(p) ==
    /\ sp_task[p].pc = "rd_body"
    /\ UNCHANGED scullp_frame
    /\ \E count \in sp_env.counts,
          fault \in (IF sp_env.faults THEN BOOLEAN ELSE {FALSE}) :
       LET d == scullp_dev
           f_pos == sp_task[p].f_pos
           quantum == Shl(PAGE_SIZE, d.nodes[1].order)
           clipped == IF f_pos + count > d.size THEN d.size - f_pos ELSE count
           pos == scullp_read_pos(f_pos, quantum, d.qset)
       IN  IF f_pos > d.size
           THEN /\ scullp_dev' = sp_mutex_unlock(d)
                /\ sp_task' = [sp_task EXCEPT ![p] =
                                  ScReturn(@, Ok(0), "ret_idle")]
           ELSE
           \E got \in scullp_gets(d.nodes, pos.item) :
           LET fol == scullp_follow(d.nodes, pos.item, got)
               dptr == fol.dptr
               d1 == [d EXCEPT !.nodes = fol.nodes]
           IN  IF dptr = 0
               THEN /\ scullp_dev' = d1
                    /\ sp_task' = [sp_task EXCEPT ![p].pc = "oops"]
               ELSE
               LET hole == \/ fol.nodes[dptr].data = NULL
                           \/ fol.nodes[dptr].data[pos.s_pos + 1] = NULL
                   n == IF clipped > quantum - pos.q_pos
                        THEN quantum - pos.q_pos ELSE clipped
               IN  IF hole
                   THEN /\ scullp_dev' = sp_mutex_unlock(d1)
                        /\ sp_task' = [sp_task EXCEPT ![p] =
                                          ScReturn(@, Ok(0), "ret_idle")]
                   ELSE IF fault /\ n > 0
                   THEN /\ scullp_dev' = sp_mutex_unlock(d1)
                        /\ sp_task' = [sp_task EXCEPT ![p] =
                                          ScReturn(@, Err("EFAULT"), "ret_idle")]
                   ELSE /\ scullp_dev' = sp_mutex_unlock(d1)
                        /\ sp_task' = [sp_task EXCEPT ![p] =
                              ScReturn([@ EXCEPT
                                 !.f_pos = f_pos + n,
                                 !.rbuf = Bytes(fol.nodes[dptr].data[pos.s_pos + 1],
                                                pos.q_pos + 1, n)],
                                 Ok(n), "ret_idle")]
    /\ UNCHANGED <<sp_env, sp_vma>>

\* ---- scullp_write ---------------------------------------------------------
scullp_write_call(p) ==
    /\ FMODE_WRITE \in sp_task[p].f_mode
    /\ UNCHANGED scullp_frame
    /\ sp_lock_call(p, "idle", "wr_body", "wr_lock")
    /\ UNCHANGED <<sp_env, sp_vma>>

scullp_write_lock(p) ==
    /\ scullp_dev.mutex = NoProc
    /\ UNCHANGED scullp_frame
    /\ sp_lock_call(p, "wr_lock", "wr_body", "wr_lock")
    /\ UNCHANGED <<sp_env, sp_vma>>

sp_alloc(needed) == IF needed /\ sp_env.faults THEN BOOLEAN ELSE {TRUE}

\* from the decomposition of *f_pos to the return.  left is what
\* copy_from_user returns: the number of bytes it could not copy.
scullp_write_body(p) ==
    /\ sp_task[p].pc = "wr_body"
    /\ UNCHANGED scullp_frame
    /\ \E count \in sp_env.counts :
       /\ sp_task[p].f_pos + count <= MaxPos
       /\ \E buf \in [1 .. count -> sp_env.bytes] :
          LET d == scullp_dev
              f_pos == sp_task[p].f_pos
              quantum == Shl(PAGE_SIZE, d.nodes[1].order)
              qset == d.qset
              pos == scullp_write_pos(f_pos, quantum, qset)
          IN  \E got \in scullp_gets(d.nodes, pos.item) :
              LET fol == scullp_follow(d.nodes, pos.item, got)
                  dptr == fol.dptr
              IN  IF dptr = 0
                  THEN /\ scullp_dev' = [d EXCEPT !.nodes = fol.nodes]
                       /\ sp_task' = [sp_task EXCEPT ![p].pc = "oops"]
                  ELSE
                  \E array_ok \in sp_alloc(fol.nodes[dptr].data = NULL) :
                  LET array == IF fol.nodes[dptr].data # NULL
                               THEN fol.nodes[dptr].data
                               ELSE IF array_ok THEN NewArray(qset) ELSE NULL
                  IN  IF array = NULL
                      THEN /\ scullp_dev' =
                                 sp_mutex_unlock([d EXCEPT !.nodes = fol.nodes])
                           /\ sp_task' = [sp_task EXCEPT ![p] =
                                 ScReturn(@, Err("ENOMEM"), "ret_idle")]
                      ELSE
                      \E pages_ok \in sp_alloc(array[pos.s_pos + 1] = NULL) :
                      LET block == IF array[pos.s_pos + 1] # NULL
                                   THEN array[pos.s_pos + 1]
                                   ELSE IF pages_ok
                                   THEN NewPages(fol.nodes[dptr].order)
                                   ELSE NULL
                          n == IF count > quantum - pos.q_pos
                               THEN quantum - pos.q_pos ELSE count
                      IN  IF block = NULL
                          THEN /\ scullp_dev' = sp_mutex_unlock(
                                     [d EXCEPT !.nodes = [fol.nodes EXCEPT
                                                   ![dptr].data = array]])
                               /\ sp_task' = [sp_task EXCEPT ![p] =
                                     ScReturn(@, Err("ENOMEM"), "ret_idle")]
                          ELSE
                          \E left \in (IF sp_env.faults THEN 0 .. n ELSE {0}) :
                          LET done == n - left
                              stored == Stored(block, pos.q_pos + 1,
                                               SubSeq(buf, 1, done))
                              nodes1 == [fol.nodes EXCEPT ![dptr].data =
                                          [array EXCEPT ![pos.s_pos + 1] = stored]]
                              end == f_pos + n
                              size1 == IF left = 0 /\ d.size < end
                                       THEN end ELSE d.size
                          IN  /\ scullp_dev' = sp_mutex_unlock(
                                    [d EXCEPT !.nodes = nodes1, !.size = size1])
                              /\ sp_task' = [sp_task EXCEPT ![p] =
                                    ScReturn([@ EXCEPT
                                       !.f_pos = IF left = 0 THEN end ELSE @],
                                       IF left = 0 THEN Ok(n) ELSE Err("EFAULT"),
                                       "ret_idle")]
    /\ UNCHANGED <<sp_env, sp_vma>>

\* ---- mmap.c ---------------------------------------------------------------
\* dev->vmas++ and dev->vmas-- are a read and a write of dev->vmas, with no
\* lock held: the value read, and the value written from it
vmas_read(p) == [sp_vma EXCEPT ![p].tmp = scullp_dev.vmas]

\* scullp_mmap refusing a device of any order but 0
scullp_mmap_refused_nonzero(order) == order # 0

\* if(scullp_devices[iminor(inode)].order == 0) return -ENODEV
scullp_mmap_refused(order) == order = 0

\* mmap(2), which the kernel refuses on a file not open for reading:
\* scullp_mmap up to the read of dev->vmas in scullp_vma_open
scullp_mmap(p) ==
    /\ sp_task[p].pc = "idle"
    /\ FMODE_READ \in sp_task[p].f_mode
    /\ sp_vma[p].n = 0
    /\ scullp_dev.vmas < MaxVmas
    /\ UNCHANGED scullp_frame
    /\ IF scullp_mmap_refused(scullp_dev.nodes[1].order)
       THEN /\ sp_task' = [sp_task EXCEPT ![p] =
                   ScReturn(@, Err("ENODEV"), "ret_idle")]
            /\ UNCHANGED sp_vma
       ELSE /\ sp_task' = [sp_task EXCEPT ![p].pc = "mm_inc"]
            /\ sp_vma' = vmas_read(p)
    /\ UNCHANGED <<scullp_dev, sp_env>>

\* the write of dev->vmas++ in scullp_vma_open, then return 0 from
\* scullp_mmap
scullp_vma_open(p) ==
    /\ sp_task[p].pc = "mm_inc"
    /\ UNCHANGED scullp_frame
    /\ scullp_dev' = [scullp_dev EXCEPT !.vmas = sp_vma[p].tmp + 1]
    /\ sp_vma' = [sp_vma EXCEPT ![p].n = @ + 1, ![p].tmp = 0]
    /\ sp_task' = [sp_task EXCEPT ![p] = ScReturn(@, Ok(0), "ret_idle")]
    /\ UNCHANGED sp_env

\* munmap(2) of the mapping of the process: the kernel drops its page table
\* entries (put_page), then calls scullp_vma_close, here up to the read of
\* dev->vmas
scullp_vma_close(p) ==
    /\ sp_task[p].pc = "idle"
    /\ sp_vma[p].n > 0
    /\ scullp_dev.vmas > -MaxVmas
    /\ UNCHANGED scullp_frame
    /\ sp_task' = [sp_task EXCEPT ![p].pc = "vc_dec"]
    /\ sp_vma' = [vmas_read(p) EXCEPT ![p].ptes = {}]
    /\ UNCHANGED <<scullp_dev, sp_env>>

\* the write of dev->vmas--
scullp_vma_close_write(p) ==
    /\ sp_task[p].pc = "vc_dec"
    /\ UNCHANGED scullp_frame
    /\ scullp_dev' = [scullp_dev EXCEPT !.vmas = sp_vma[p].tmp - 1]
    /\ sp_vma' = [sp_vma EXCEPT ![p].n = @ - 1, ![p].tmp = 0]
    /\ sp_task' = [sp_task EXCEPT ![p] = ScReturn(@, Ok(0), "ret_idle")]
    /\ UNCHANGED sp_env

\* the page scullp_vma_nopage finds for the byte offset off of the device:
\* <<list item, index in its array, page of the quantum>>, or <<>> for
\* VM_FAULT_NOPAGE.  The page number is taken as the number of the quantum.
nopage_lookup(d, off) ==
    LET pgnum == off \div PAGE_SIZE
        item == pgnum \div d.qset
        idx == pgnum % d.qset
    IN  IF off >= d.size THEN <<>>
        ELSE IF item >= Len(d.nodes) THEN <<>>
        ELSE IF d.nodes[item + 1].data = NULL THEN <<>>
        ELSE IF d.nodes[item + 1].data[idx + 1] = NULL THEN <<>>
        ELSE <<item, idx, 0>>

\* the process touches a page of its mapping that has no page table entry:
\* scullp_vma_nopage, mutex_lock(&dev->mutex)
scullp_vma_nopage_call(p) ==
    /\ sp_vma[p].n > 0
    /\ UNCHANGED scullp_frame
    /\ sp_lock_call(p, "idle", "nf_body", "nf_lock")
    /\ UNCHANGED <<sp_env, sp_vma>>

scullp_vma_nopage_lock(p) ==
    /\ scullp_dev.mutex = NoProc
    /\ UNCHANGED scullp_frame
    /\ sp_lock_call(p, "nf_lock", "nf_body", "nf_lock")
    /\ UNCHANGED <<sp_env, sp_vma>>

\* from the computation of offset to the return.  With retval 0 the kernel
\* installs vmf->page, whose count get_page has raised, in the page table.
scullp_vma_nopage_body(p) ==
    /\ sp_task[p].pc = "nf_body"
    /\ UNCHANGED scullp_frame
    /\ \E off \in 0 .. MaxPos :
       /\ \A e \in sp_vma[p].ptes : e.vpage # off \div PAGE_SIZE
       /\ LET page == nopage_lookup(scullp_dev, off)
          IN  /\ sp_vma' = [sp_vma EXCEPT
                    ![p].vmf = [off |-> off, page |-> page],
                    ![p].ptes = IF page = <<>> THEN @
                                ELSE @ \cup {[vpage |-> off \div PAGE_SIZE,
                                              page |-> page]}]
              /\ sp_task' = [sp_task EXCEPT ![p] =
                    ScReturn(@, IF page = <<>> THEN Err("VM_FAULT_NOPAGE")
                                ELSE Ok(0), "ret_idle")]
    /\ scullp_dev' = sp_mutex_unlock(scullp_dev)
    /\ UNCHANGED sp_env

scullp_Next ==
    \/ \E p \in Proc : scullp_open_call(p)
    \/ \E p \in Proc : scullp_open_lock(p)
    \/ \E p \in Proc : scullp_open_body(p)
    \/ \E p \in Proc : scullp_release(p)
    \/ \E p \in Proc : scullp_read_call(p)
    \/ \E p \in Proc : scullp_read_lock(p)
    \/ \E p \in Proc : scullp_read_body(p)
    \/ \E p \in Proc : scullp_write_call(p)
    \/ \E p \in Proc : scullp_write_lock(p)
    \/ \E p \in Proc : scullp_write_body(p)
    \/ \E p \in Proc : sp_deliver_signal(p)
    \/ \E p \in Proc : sp_ret_to_user(p)

\* the file operations with mmap and the vm operations
scullp_mmap_Next ==
    \/ scullp_Next
    \/ \E p \in Proc : scullp_mmap(p)
    \/ \E p \in Proc : scullp_vma_open(p)
    \/ \E p \in Proc : scullp_vma_close(p)
    \/ \E p \in Proc : scullp_vma_close_write(p)
    \/ \E p \in Proc : scullp_vma_nopage_call(p)
    \/ \E p \in Proc : scullp_vma_nopage_lock(p)
    \/ \E p \in Proc : scullp_vma_nopage_body(p)

(***************************************************************************)
(*                     scull ioctl (ioctl notes, scull.h)                  *)
(***************************************************************************)
\* the type tag of scull's commands and a foreign one
SCULL_IOC_MAGIC == "k"
OtherMagic == "P"

\* the highest sequence number of a scull command.  The commands on
\* scull_qset, which the switch at hand leaves out, have numbers up to it.
SCULL_IOC_MAXNR == 7

\* _IOC_DIR(cmd): _IOC_NONE, _IOC_WRITE, _IOC_READ, _IOC_READ|_IOC_WRITE
IocDirs == {"none", "write", "read", "both"}

\* _IO(type,nr), _IOW(type,nr,int), _IOR(type,nr,int), _IOWR(type,nr,int)
IoCmd(type, nr, dir) == [type |-> type, nr |-> nr, dir |-> dir]

SCULL_IOCRESET == IoCmd(SCULL_IOC_MAGIC, 0, "none")
SCULL_IOCSQUANTUM == IoCmd(SCULL_IOC_MAGIC, 1, "write")
SCULL_IOCTQUANTUM == IoCmd(SCULL_IOC_MAGIC, 2, "none")
SCULL_IOCGQUANTUM == IoCmd(SCULL_IOC_MAGIC, 3, "read")
SCULL_IOCQQUANTUM == IoCmd(SCULL_IOC_MAGIC, 4, "none")
SCULL_IOCXQUANTUM == IoCmd(SCULL_IOC_MAGIC, 5, "both")
SCULL_IOCHQUANTUM == IoCmd(SCULL_IOC_MAGIC, 6, "none")

\* the commands a caller can pass
IoCmds == [type : {SCULL_IOC_MAGIC, OtherMagic},
           nr : 0 .. SCULL_IOC_MAXNR + 1, dir : IocDirs]

\* the values of the int passed by value or through the pointer
IoValues == 0 .. MaxVal

NoCmd == IoCmd(OtherMagic, 0, "none")

IoctlTask ==
    [pc |-> "idle", cmd |-> NoCmd, cap |-> FALSE, val |-> 0, addr_ok |-> FALSE,
     mem |-> 0, tmp |-> 0, ret |-> Ok(0), p0 |-> 0, q0 |-> 0]

ioctl_Init == io_task = [p \in Proc |-> IoctlTask]

\* the checks before the switch: 0 when the command passes them.  addr_ok is
\* the result of access_ok for the argument address.
ioctl_checks(cmd, addr_ok) ==
    IF cmd.type # SCULL_IOC_MAGIC THEN Err("ENOTTY")
    ELSE IF cmd.nr > SCULL_IOC_MAXNR THEN Err("ENOTTY")
    ELSE IF cmd.dir # "none" /\ ~addr_ok THEN Err("EFAULT")
    ELSE Ok(0)

\* if (! capable (CAP_SYS_ADMIN)) return -EPERM, with the test left out
ioctl_perm_skipped(cap) == Ok(0)

\* if (! capable (CAP_SYS_ADMIN)) return -EPERM
ioctl_perm(cap) == IF cap THEN Ok(0) ELSE Err("EPERM")

\* return tmp of the shift command, returning the new value instead
ioctl_shift_ret_new(tmp, arg) == Ok(arg)

\* return tmp of the shift command
ioctl_shift_ret(tmp, arg) == Ok(tmp)

IoReturn(t, r) == [t EXCEPT !.pc = "ret", !.ret = r]

\* ioctl(2) enters scull_ioctl: the checks, then the switch.  Every command
\* but exchange and shift is done in this step; those two have read
\* scull_quantum into tmp.  fault: the __get_user or __put_user of the
\* command faults; a faulting __get_user leaves 0 in its destination.
scull_ioctl_call(p) ==
    /\ io_task[p].pc = "idle"
    /\ p \in io_env.users
    /\ UNCHANGED ioctl_frame
    /\ \E cmd \in io_env.cmds, val \in IoValues, cap \in BOOLEAN,
          addr_ok \in BOOLEAN, fault \in BOOLEAN :
       LET t == [io_task[p] EXCEPT !.cmd = cmd, !.cap = cap, !.val = val,
                                   !.addr_ok = addr_ok, !.mem = val,
                                   !.p0 = scull_quantum, !.q0 = scull_qset]
           checked == ioctl_checks(cmd, addr_ok)
           perm == ioctl_perm(cap)
           same == /\ scull_quantum' = scull_quantum
                   /\ scull_qset' = scull_qset
       IN  IF checked # Ok(0)
           THEN /\ io_task' = [io_task EXCEPT ![p] = IoReturn(t, checked)]
                /\ same
           ELSE IF cmd = SCULL_IOCRESET
           THEN /\ scull_quantum' = SCULL_QUANTUM
                /\ scull_qset' = SCULL_QSET
                /\ io_task' = [io_task EXCEPT ![p] = IoReturn(t, Ok(0))]
           ELSE IF cmd = SCULL_IOCSQUANTUM
           THEN IF perm # Ok(0)
                THEN /\ io_task' = [io_task EXCEPT ![p] = IoReturn(t, perm)]
                     /\ same
                ELSE /\ scull_quantum' = IF fault THEN 0 ELSE val
                     /\ scull_qset' = scull_qset
                     /\ io_task' = [io_task EXCEPT ![p] =
                           IoReturn(t, IF fault THEN Err("EFAULT") ELSE Ok(0))]
           ELSE IF cmd = SCULL_IOCTQUANTUM
           THEN IF perm # Ok(0)
                THEN /\ io_task' = [io_task EXCEPT ![p] = IoReturn(t, perm)]
                     /\ same
                ELSE /\ scull_quantum' = val
                     /\ scull_qset' = scull_qset
                     /\ io_task' = [io_task EXCEPT ![p] = IoReturn(t, Ok(0))]
           ELSE IF cmd = SCULL_IOCGQUANTUM
           THEN /\ same
                /\ io_task' = [io_task EXCEPT ![p] =
                      IF fault THEN IoReturn(t, Err("EFAULT"))
                      ELSE IoReturn([t EXCEPT !.mem = scull_quantum], Ok(0))]
           ELSE IF cmd = SCULL_IOCQQUANTUM
           THEN /\ same
                /\ io_task' = [io_task EXCEPT ![p] =
                                  IoReturn(t, Ok(scull_quantum))]
           ELSE IF cmd = SCULL_IOCXQUANTUM
           THEN /\ same
                /\ io_task' = [io_task EXCEPT ![p] =
                      IF perm # Ok(0) THEN IoReturn(t, perm)
                      ELSE [t EXCEPT !.pc = "x_get", !.tmp = scull_quantum]]
           ELSE IF cmd = SCULL_IOCHQUANTUM
           THEN /\ same
                /\ io_task' = [io_task EXCEPT ![p] =
                      IF perm # Ok(0) THEN IoReturn(t, perm)
                      ELSE [t EXCEPT !.pc = "h_tell", !.tmp = scull_quantum]]
           ELSE /\ same
                /\ io_task' = [io_task EXCEPT ![p] = IoReturn(t, Err("ENOTTY"))]
    /\ UNCHANGED io_env

\* exchange: retval = __get_user(scull_quantum, (int __user *)arg)
scull_ioctl_xget(p) ==
    /\ io_task[p].pc = "x_get"
    /\ UNCHANGED ioctl_frame
    /\ \E fault \in BOOLEAN :
          IF fault
          THEN /\ scull_quantum' = 0
               /\ io_task' = [io_task EXCEPT ![p] = IoReturn(@, Err("EFAULT"))]
          ELSE /\ scull_quantum' = io_task[p].mem
               /\ io_task' = [io_task EXCEPT ![p].pc = "x_put"]
    /\ UNCHANGED <<scull_qset, io_env>>

\* exchange: retval = __put_user(tmp, (int __user *)arg); return retval
scull_ioctl_xput(p) ==
    /\ io_task[p].pc = "x_put"
    /\ UNCHANGED ioctl_frame
    /\ \E fault \in BOOLEAN :
          io_task' = [io_task EXCEPT ![p] =
             IF fault THEN IoReturn(@, Err("EFAULT"))
             ELSE IoReturn([@ EXCEPT !.mem = io_task[p].tmp], Ok(0))]
    /\ UNCHANGED <<scull_quantum, scull_qset, io_env>>

\* shift: scull_quantum = arg; return tmp
scull_ioctl_htell(p) ==
    /\ io_task[p].pc = "h_tell"
    /\ UNCHANGED ioctl_frame
    /\ scull_quantum' = io_task[p].val
    /\ io_task' = [io_task EXCEPT ![p] =
          IoReturn(@, ioctl_shift_ret(@.tmp, @.val))]
    /\ UNCHANGED <<scull_qset, io_env>>

\* the process is back in user space with the result
io_ret_to_user(p) ==
    /\ io_task[p].pc = "ret"
    /\ UNCHANGED ioctl_frame
    /\ io_task' = [io_task EXCEPT ![p] = IoctlTask]
    /\ UNCHANGED <<scull_quantum, scull_qset, io_env>>

ioctl_Next ==
    \/ \E p \in Proc : scull_ioctl_call(p)
    \/ \E p \in Proc : scull_ioctl_xget(p)
    \/ \E p \in Proc : scull_ioctl_xput(p)
    \/ \E p \in Proc : scull_ioctl_htell(p)
    \/ \E p \in Proc : io_ret_to_user(p)

(***************************************************************************)
(*                         sleepy (ioctl/sleepy.c)                         *)
(***************************************************************************)
\* woken: a sleepy_write found the process asleep in sleepy_read and it has
\* not returned since; sig: the sleep was ended by a signal
SleepyTask ==
    [pc |-> "idle", ret |-> Ok(0), sig |-> FALSE, woken |-> FALSE]

sleepy_Init ==
    /\ sleepy_flag = 0
    /\ sl_task = [p \in Proc |-> SleepyTask]

\* sleepy_read has no return statement: what the caller gets is whatever the
\* return register holds
sleepy_read_returns ==
    {Ok(n) : n \in 0 .. MaxCount} \cup {Err("ERESTARTSYS")}

\* wait_event_interruptible(wq, flag != 0): the condition, tested on entry
\* and again each time the process is woken
sleepy_wait(p) ==
    sl_task' = [sl_task EXCEPT ![p].pc =
                   IF sleepy_flag # 0 THEN "rd_clear" ELSE "rd_sleep"]

\* read(2) on the device: sleepy_read up to the first test of the condition
sleepy_read(p) ==
    /\ "sleepy" \in dev_nodes
    /\ sl_task[p].pc = "idle"
    /\ UNCHANGED sleepy_frame
    /\ sleepy_wait(p)
    /\ UNCHANGED sleepy_flag

\* a woken reader runs: it tests the condition again
sleepy_read_woken(p) ==
    /\ sl_task[p].pc = "rd_run"
    /\ UNCHANGED sleepy_frame
    /\ sleepy_wait(p)
    /\ UNCHANGED sleepy_flag

\* a signal ends the sleep: wait_event_interruptible returns -ERESTARTSYS,
\* which sleepy_read does not look at
sl_deliver_signal(p) ==
    /\ sl_task[p].pc = "rd_sleep"
    /\ UNCHANGED sleepy_frame
    /\ sl_task' = [sl_task EXCEPT ![p].pc = "rd_clear", ![p].sig = TRUE]
    /\ UNCHANGED sleepy_flag

\* flag = 0 and the end of the function
sleepy_read_clear(p) ==
    /\ sl_task[p].pc = "rd_clear"
    /\ UNCHANGED sleepy_frame
    /\ sleepy_flag' = 0
    /\ \E r \in sleepy_read_returns :
          sl_task' = [sl_task EXCEPT ![p].pc = "ret", ![p].ret = r]

\* wake_up_interruptible(&wq) left out
sleepy_wake_up_none(tasks) == tasks

\* wake_up_interruptible(&wq): every process asleep on the queue is made
\* runnable
sleepy_wake_up(tasks) ==
    [q \in Proc |->
        IF tasks[q].pc = "rd_sleep"
        THEN [tasks[q] EXCEPT !.pc = "rd_run", !.woken = TRUE]
        ELSE tasks[q]]

\* write(2) on the device
sleepy_write(p) ==
    /\ "sleepy" \in dev_nodes
    /\ sl_task[p].pc = "idle"
    /\ UNCHANGED sleepy_frame
    /\ sleepy_flag' = 1
    /\ \E count \in 0 .. MaxCount :
          sl_task' = [sleepy_wake_up(sl_task) EXCEPT
                         ![p].pc = "ret", ![p].ret = Ok(count)]

\* the system call returns
sl_ret_to_user(p) ==
    /\ sl_task[p].pc = "ret"
    /\ UNCHANGED sleepy_frame
    /\ sl_task' = [sl_task EXCEPT ![p] = SleepyTask]
    /\ UNCHANGED sleepy_flag

sleepy_Next ==
    \/ \E p \in Proc : sleepy_read(p)
    \/ \E p \in Proc : sleepy_read_woken(p)
    \/ \E p \in Proc : sl_deliver_signal(p)
    \/ \E p \in Proc : sleepy_read_clear(p)
    \/ \E p \in Proc : sleepy_write(p)
    \/ \E p \in Proc : sl_ret_to_user(p)

(***************************************************************************)
(*             short: the interrupt-driven read (short/short.c)            *)
(***************************************************************************)
\* count: the count passed to read; n: the bytes short_i_read has copied
\* and not yet counted in short_tail; sig: a signal is pending
ShortTask ==
    [pc |-> "idle", count |-> 0, n |-> 0, ret |-> Ok(0), sig |-> FALSE]

\* the handler request_irq installs: short_interrupt, short_sh_interrupt
\* (share), or a top half whose bottom half is short_do_tasklet (tasklet, wq)
ShortHandlers == {"direct", "shared", "tasklet"}

\* tv_head = tv_tail = tv_data, short_wq_count = 0, the tasklet neither
\* scheduled nor running
ShortIrq(handler) ==
    [handler |-> handler, tv_head |-> 0, tv_tail |-> 0, wq_count |-> 0,
     sched |-> FALSE, pc |-> "idle"]

\* the buffer and the readers after the module is loaded
short_Init_buffer ==
    /\ short_head = 0
    /\ short_tail = 0
    /\ sh_task = [p \in Proc |-> ShortTask]

\* loaded with the default parameters: wq = 0, tasklet = 0, share = 0
short_Init ==
    /\ short_Init_buffer
    /\ sh_irq = ShortIrq("direct")

\* loaded with any choice of tasklet and share
short_Init_any ==
    /\ short_Init_buffer
    /\ \E handler \in ShortHandlers : sh_irq = ShortIrq(handler)

\* wake_up_interruptible(&short_queue)
short_wake_up(tasks) ==
    [q \in Proc |->
        IF tasks[q].pc = "sh_sleep"
        THEN [tasks[q] EXCEPT !.pc = "sh_run"] ELSE tasks[q]]

\* short_incr_bp(index, delta): back to the start of the buffer at its end
short_incr_bp(index, delta) ==
    IF index + delta >= SHORT_PAGE THEN 0 ELSE index + delta

\* an interrupt: short_interrupt writes a record at short_head, moves
\* short_head and wakes the readers
short_interrupt ==
    /\ "short" \in dev_nodes
    /\ sh_irq.handler = "direct"
    /\ UNCHANGED short_frame
    /\ short_head' = short_incr_bp(short_head, SHORT_RECORD)
    /\ sh_task' = short_wake_up(sh_task)
    /\ UNCHANGED <<short_tail, sh_irq>>

\* an interrupt on a shared line: short_sh_interrupt returns IRQ_NONE when
\* the status bit of the port is clear, and otherwise does what
\* short_interrupt does
short_sh_interrupt ==
    /\ "short" \in dev_nodes
    /\ sh_irq.handler = "shared"
    /\ UNCHANGED short_frame
    /\ \E mine \in BOOLEAN :
          IF mine
          THEN /\ short_head' = short_incr_bp(short_head, SHORT_RECORD)
               /\ sh_task' = short_wake_up(sh_task)
          ELSE UNCHANGED <<short_head, sh_task>>
    /\ UNCHANGED <<short_tail, sh_irq>>

\* short_incr_tv(tvp): the next slot of tv_data, the first after the last
short_incr_tv(tvp) == IF tvp = NR_TIMEVAL - 1 THEN 0 ELSE tvp + 1

\* an interrupt with a deferred bottom half: short_tl_interrupt (and
\* short_wq_interrupt, which differs in how the bottom half is queued)
\* stores the time at tv_head, moves tv_head, schedules the bottom half and
\* counts the interrupt
short_tl_interrupt ==
    /\ "short" \in dev_nodes
    /\ sh_irq.handler = "tasklet"
    /\ sh_irq.wq_count < MaxIrqs
    /\ UNCHANGED short_frame
    /\ sh_irq' = [sh_irq EXCEPT !.tv_head = short_incr_tv(@),
                                !.sched = TRUE,
                                !.wq_count = @ + 1]
    /\ UNCHANGED <<short_head, short_tail, sh_task>>

\* short_do_tasklet starts: short_wq_count = 0, then the line "bottom half
\* after ..." is written at short_head and short_head moves past it
short_do_tasklet ==
    /\ sh_irq.sched
    /\ sh_irq.pc = "idle"
    /\ UNCHANGED short_frame
    /\ sh_irq' = [sh_irq EXCEPT !.sched = FALSE, !.wq_count = 0,
                                !.pc = "times"]
    /\ short_head' = short_incr_bp(short_head, SHORT_HEADER)
    /\ UNCHANGED <<short_tail, sh_task>>

\* one turn of do { ... } while(tv_tail != tv_head): a record is written at
\* short_head, short_head and tv_tail move; after the last turn the readers
\* are woken
short_do_tasklet_times ==
    /\ sh_irq.pc = "times"
    /\ UNCHANGED short_frame
    /\ short_head' = short_incr_bp(short_head, SHORT_RECORD)
    /\ LET tail == short_incr_tv(sh_irq.tv_tail)
       IN  IF tail # sh_irq.tv_head
           THEN /\ sh_irq' = [sh_irq EXCEPT !.tv_tail = tail]
                /\ UNCHANGED sh_task
           ELSE /\ sh_irq' = [sh_irq EXCEPT !.tv_tail = tail, !.pc = "idle"]
                /\ sh_task' = short_wake_up(sh_task)
    /\ UNCHANGED short_tail

\* the bytes short_i_read copies: count0 = short_head - short_tail is an
\* int, and a negative one compared with the unsigned count is larger
short_count(count) ==
    LET count0 == short_head - short_tail
    IN  IF count0 >= 0 /\ count0 < count THEN count0 ELSE count

\* the test of the while loop and what follows it: another turn asleep, or
\* copy_to_user, which can fail
short_i_read_loop(p, t) ==
    IF short_head = short_tail
    THEN sh_task' = [sh_task EXCEPT ![p] = [t EXCEPT !.pc = "sh_sleep"]]
    ELSE \E fault \in BOOLEAN :
            sh_task' = [sh_task EXCEPT ![p] =
               IF fault /\ short_count(t.count) > 0
               THEN [t EXCEPT !.pc = "ret", !.ret = Err("EFAULT")]
               ELSE [t EXCEPT !.pc = "sh_incr",
                                 !.n = short_count(t.count)]]

\* read(2) on the device: short_i_read up to schedule() or to copy_to_user
short_i_read(p) ==
    /\ "short" \in dev_nodes
    /\ sh_task[p].pc = "idle"
    /\ UNCHANGED short_frame
    /\ \E count \in 1 .. MaxCount :
          short_i_read_loop(p, [sh_task[p] EXCEPT !.count = count])
    /\ UNCHANGED <<short_head, short_tail, sh_irq>>

\* a signal arrives at a reader that sleeps: it becomes runnable
sh_deliver_signal(p) ==
    /\ sh_task[p].pc = "sh_sleep"
    /\ UNCHANGED short_frame
    /\ sh_task' = [sh_task EXCEPT ![p].pc = "sh_run", ![p].sig = TRUE]
    /\ UNCHANGED <<short_head, short_tail, sh_irq>>

\* schedule() returns: finish_wait, the test of signal_pending and the next
\* turn of the loop
short_i_read_woken(p) ==
    /\ sh_task[p].pc = "sh_run"
    /\ UNCHANGED short_frame
    /\ IF sh_task[p].sig
       THEN sh_task' = [sh_task EXCEPT ![p].pc = "ret",
                                       ![p].ret = Err("ERESTARTSYS")]
       ELSE short_i_read_loop(p, sh_task[p])
    /\ UNCHANGED <<short_head, short_tail, sh_irq>>

\* short_incr_bp(&short_tail, count); return count
short_i_read_incr(p) ==
    /\ sh_task[p].pc = "sh_incr"
    /\ UNCHANGED short_frame
    /\ short_tail' = short_incr_bp(short_tail, sh_task[p].n)
    /\ sh_task' = [sh_task EXCEPT ![p].pc = "ret",
                                  ![p].ret = Ok(sh_task[p].n)]
    /\ UNCHANGED <<short_head, sh_irq>>

\* the system call returns
sh_ret_to_user(p) ==
    /\ sh_task[p].pc = "ret"
    /\ UNCHANGED short_frame
    /\ sh_task' = [sh_task EXCEPT ![p] = ShortTask]
    /\ UNCHANGED <<short_head, short_tail, sh_irq>>

short_Next ==
    \/ short_interrupt
    \/ short_sh_interrupt
    \/ short_tl_interrupt
    \/ short_do_tasklet
    \/ short_do_tasklet_times
    \/ \E p \in Proc : short_i_read(p)
    \/ \E p \in Proc : sh_deliver_signal(p)
    \/ \E p \in Proc : short_i_read_woken(p)
    \/ \E p \in Proc : short_i_read_incr(p)
    \/ \E p \in Proc : sh_ret_to_user(p)

(***************************************************************************)
(*                  hello (the hello device, scull/pipe.c)                 *)
(***************************************************************************)
\* the processes that open the device
HelloProc == {"p1", "p2", "p3"}

HelloTask == [pc |-> "closed", ret |-> Ok(0)]

hello_Init ==
    /\ is_open = 0
    /\ he_task = [p \in HelloProc |-> HelloTask]

\* hello_open ends without a return statement once it has set is_open: the
\* kernel takes whatever the return register holds, and fails the open
\* (without calling hello_release) when that is not 0
hello_open_returns == {Ok(0), Err("indeterminate")}

\* if(is_open == 1)
hello_marked(mark) == mark = 1

\* open(2) on the device: hello_open up to the test of is_open
hello_open(p) ==
    /\ he_task[p].pc = "closed"
    /\ UNCHANGED hello_frame
    /\ he_task' = [he_task EXCEPT ![p] =
          IF hello_marked(is_open)
          THEN [pc |-> "ret_closed", ret |-> Err("EBUSY")]
          ELSE [pc |-> "ho_set", ret |-> Ok(0)]]
    /\ UNCHANGED is_open

\* is_open = 1 and the end of the function
hello_open_set(p) ==
    /\ he_task[p].pc = "ho_set"
    /\ UNCHANGED hello_frame
    /\ is_open' = 1
    /\ \E r \in hello_open_returns :
          he_task' = [he_task EXCEPT ![p] =
             [pc |-> IF r = Ok(0) THEN "ret_open" ELSE "ret_closed",
              ret |-> r]]

\* close(2) of the last reference to the file: hello_release up to the test
\* of is_open.  The kernel does not look at what release returns.
hello_release(p) ==
    /\ he_task[p].pc = "open"
    /\ UNCHANGED hello_frame
    /\ he_task' = [he_task EXCEPT ![p] =
          IF is_open = 0
          THEN [pc |-> "ret_closed", ret |-> Err("EBUSY")]
          ELSE [pc |-> "hr_clear", ret |-> Ok(0)]]
    /\ UNCHANGED is_open

\* is_open = 0; module_put(THIS_MODULE)
hello_release_clear(p) ==
    /\ he_task[p].pc = "hr_clear"
    /\ UNCHANGED hello_frame
    /\ is_open' = 0
    /\ he_task' = [he_task EXCEPT ![p].pc = "ret_closed"]

\* the system call returns
he_ret_to_user(p) ==
    /\ he_task[p].pc \in {"ret_open", "ret_closed"}
    /\ UNCHANGED hello_frame
    /\ he_task' = [he_task EXCEPT ![p] =
          [pc |-> IF @.pc = "ret_open" THEN "open" ELSE "closed",
           ret |-> Ok(0)]]
    /\ UNCHANGED is_open

hello_Next ==
    \/ \E p \in HelloProc : hello_open(p)
    \/ \E p \in HelloProc : hello_open_set(p)
    \/ \E p \in HelloProc : hello_release(p)
    \/ \E p \in HelloProc : hello_release_clear(p)
    \/ \E p \in HelloProc : he_ret_to_user(p)

(***************************************************************************)
(*          nbtest (nbtest.c) reading a scullpipe device, and the          *)
(*                    process that feeds the device                        *)
(***************************************************************************)
\* nbtest is the process whose standard input is the device; the feeder has
\* the device open for writing
NbReader == "p2"
NbWriter == "p1"

\* the input: NbBytes bytes, each with its position as value
NbInput == [i \in 1 .. NbBytes |-> i]

nbtest_Init ==
    /\ nbt = [pc |-> "start", buffer |-> [i \in 1 .. MaxCount |-> 0], n |-> 0,
             out |-> <<>>, eagain |-> FALSE]
    /\ feeder = [pc |-> "open", fed |-> 0]

\* write(1, buffer, n) taken as writing the whole buffer
nb_written_all(buffer, n) == buffer

\* m = write(1, buffer, n): the bytes that go to standard output
nb_written(buffer, n) == SubSeq(buffer, 1, n)

\* ---- the shell connects standard input, then main() runs ----
nb_stdin_open(p) ==
    /\ p = NbReader
    /\ nbt.pc = "start"
    /\ scull_p_open_call(p)
    /\ task'[p].f_mode = {FMODE_READ}

\* fcntl(0, F_SETFL, fcntl(0, F_GETFL) | O_NONBLOCK), and the same for 1
nb_fcntl ==
    /\ nbt.pc = "start"
    /\ task[NbReader].pc = "idle"
    /\ UNCHANGED nbtest_frame
    /\ nbt' = [nbt EXCEPT !.pc = "read"]
    /\ UNCHANGED feeder

\* n = read(0, buffer, 4096) enters the driver
nb_read_call(p) ==
    /\ p = NbReader
    /\ nbt.pc = "read"
    /\ scull_p_read_call(p)

\* scull_p_read for nbtest: O_NONBLOCK is set, and count is the size of the
\* buffer
nb_read_check(p) ==
    /\ p = NbReader
    /\ scull_p_read_check(p)
    /\ hist'[p].mustwait => hist'[p].nonblock
    /\ task'[p].pc = "r_wake" => task'[p].count = MaxCount

\* read returns: n, the bytes in buffer, errno; then the test that ends the
\* loop when an error is not EAGAIN
nb_read_returns ==
    /\ nbt.pc = "read"
    /\ task[NbReader].pc = "ret_idle"
    /\ UNCHANGED nbtest_frame
    /\ LET r == task[NbReader].ret
       IN  nbt' = [nbt EXCEPT
                    !.n = IF r.err = "OK" THEN r.n ELSE -1,
                    !.buffer = [i \in 1 .. MaxCount |->
                                  IF r.err = "OK" /\ i <= r.n
                                  THEN task[NbReader].ubuf[i] ELSE @[i]],
                    !.eagain = @ \/ r.err = "EAGAIN",
                    !.pc = IF r.err = "OK" THEN "write"
                           ELSE IF r.err = "EAGAIN" THEN "sleep" ELSE "exit"]
    /\ UNCHANGED feeder

\* if(n >= 0) m = write(1, buffer, n), on an output that takes every byte
nb_write ==
    /\ nbt.pc = "write"
    /\ UNCHANGED nbtest_frame
    /\ nbt' = [nbt EXCEPT !.out = @ \o nb_written(nbt.buffer, nbt.n),
                        !.pc = "sleep"]
    /\ UNCHANGED feeder

\* sleep(delay), then the next turn of the loop
nb_sleep ==
    /\ nbt.pc = "sleep"
    /\ task[NbReader].pc = "idle"
    /\ UNCHANGED nbtest_frame
    /\ nbt' = [nbt EXCEPT !.pc = "read"]
    /\ UNCHANGED feeder

\* ---- the feeder ----
\* it opens the device for writing once nbtest is connected to it
feeder_open(p) ==
    /\ p = NbWriter
    /\ feeder.pc = "open"
    /\ nbt.pc # "start"
    /\ scull_p_open_call(p)
    /\ task'[p].f_mode = {FMODE_WRITE}

feeder_opened ==
    /\ feeder.pc = "open"
    /\ task[NbWriter].pc = "idle"
    /\ UNCHANGED nbtest_frame
    /\ feeder' = [feeder EXCEPT !.pc = "feed"]
    /\ UNCHANGED nbt

\* write(2) of the next bytes of the input enters the driver
feeder_write_call(p) ==
    /\ p = NbWriter
    /\ feeder.pc = "feed"
    /\ scull_p_write_call(p)

\* scull_p_write for the feeder: a blocking write of at most MaxCount of the
\* bytes not yet accepted
feeder_write_space(p) ==
    /\ p = NbWriter
    /\ scull_p_write_space(p)
    /\ hist'[p].mustwait => ~hist'[p].nonblock
    /\ task'[p].pc = "w_wake" =>
          /\ task'[p].count \in 1 .. (NbBytes - feeder.fed)
          /\ \A i \in 1 .. task'[p].ret.n :
                mem'[dev.wp + i - 1] = NbInput[feeder.fed + i]

\* write returns: the bytes accepted are input no more
feeder_write_returns ==
    /\ feeder.pc = "feed"
    /\ task[NbWriter].pc = "ret_idle"
    /\ UNCHANGED nbtest_frame
    /\ feeder' = [feeder EXCEPT !.fed = @ + task[NbWriter].ret.n,
                                !.pc = "pause"]
    /\ UNCHANGED nbt

\* the pause between two writes; after the last byte the feeder closes the
\* device
feeder_pause ==
    /\ feeder.pc = "pause"
    /\ task[NbWriter].pc = "idle"
    /\ UNCHANGED nbtest_frame
    /\ feeder' = [feeder EXCEPT
                    !.pc = IF feeder.fed = NbBytes THEN "done" ELSE "feed"]
    /\ UNCHANGED nbt

feeder_close(p) ==
    /\ p = NbWriter
    /\ feeder.pc = "done"
    /\ scull_p_release_call(p)

\* a system call of nbtest or of the feeder returns, once the program has
\* taken its result
nb_ret_to_user(p) ==
    /\ p = NbReader => nbt.pc # "read"
    /\ p = NbWriter => feeder.pc # "feed"
    /\ ret_to_user(p)

nbtest_Next ==
    \/ \E p \in Proc : nb_stdin_open(p)
    \/ nb_fcntl
    \/ \E p \in Proc : nb_read_call(p)
    \/ \E p \in Proc : nb_read_check(p)
    \/ nb_read_returns
    \/ nb_write
    \/ nb_sleep
    \/ \E p \in Proc : feeder_open(p)
    \/ feeder_opened
    \/ \E p \in Proc : feeder_write_call(p)
    \/ \E p \in Proc : feeder_write_space(p)
    \/ feeder_write_returns
    \/ feeder_pause
    \/ \E p \in Proc : feeder_close(p)
    \/ \E p \in Proc : nb_ret_to_user(p)
    \/ \E p \in Proc : scull_p_open_lock(p)
    \/ \E p \in Proc : scull_p_open_body(p)
    \/ \E p \in Proc : scull_p_release_lock(p)
    \/ \E p \in Proc : scull_p_release_body(p)
    \/ \E p \in Proc : scull_p_read_lock(p)
    \/ \E p \in Proc : scull_p_read_wake(p)
    \/ \E p \in Proc : scull_p_write_lock(p)
    \/ \E p \in Proc : scull_getwritespace_prepare(p)
    \/ \E p \in Proc : scull_getwritespace_retest(p)
    \/ \E p \in Proc : scull_getwritespace_schedule(p)
    \/ \E p \in Proc : scull_getwritespace_finish(p)
    \/ \E p \in Proc : scull_p_write_wake(p)

\* ---- scullpipe between one writer and one reader ----
\* the mode each process opens scullpipe with: p1 feeds the pipe, the
\* other process drains it
pipe_role(p) == IF p = "p1" THEN {FMODE_WRITE} ELSE {FMODE_READ}

\* open(2) by a process in its role
role_open_call(p) ==
    /\ scull_p_open_call(p)
    /\ task'[p].f_mode = pipe_role(p)

\* the calls of the two processes and the steps inside the driver; no signal
\* is sent
writer_wait_Next ==
    \/ \E p \in Proc : role_open_call(p)
    \/ \E p \in Proc : scull_p_open_lock(p)
    \/ \E p \in Proc : scull_p_open_body(p)
    \/ \E p \in Proc : scull_p_release_call(p)
    \/ \E p \in Proc : scull_p_release_lock(p)
    \/ \E p \in Proc : scull_p_release_body(p)
    \/ \E p \in Proc : scull_p_read_call(p)
    \/ \E p \in Proc : scull_p_read_lock(p)
    \/ \E p \in Proc : scull_p_read_check(p)
    \/ \E p \in Proc : scull_p_read_wait(p)
    \/ \E p \in Proc : scull_p_read_sched(p)
    \/ \E p \in Proc : scull_p_read_wake(p)
    \/ \E p \in Proc : scull_p_write_call(p)
    \/ \E p \in Proc : scull_p_write_lock(p)
    \/ \E p \in Proc : scull_p_write_space(p)
    \/ \E p \in Proc : scull_getwritespace_prepare(p)
    \/ \E p \in Proc : scull_getwritespace_retest(p)
    \/ \E p \in Proc : scull_getwritespace_schedule(p)
    \/ \E p \in Proc : scull_getwritespace_finish(p)
    \/ \E p \in Proc : scull_p_write_wake(p)
    \/ \E p \in Proc : ret_to_user(p)

(***************************************************************************)
(*            phantom (phantom/phantom.c), one phantom device              *)
(***************************************************************************)
\* the bits of dev->status
PHB_RUNNING == "PHB_RUNNING"
PHB_NOT_OH == "PHB_NOT_OH"

\* the ioctl commands (PHN_SETREG and PHN_SET_REG etc. share a case), and a
\* command number the driver does not know
PhCmds ==
    {"PHN_SET_REG", "PHN_SET_REGS", "PHN_GET_REG", "PHN_GET_REGS",
     "PHN_NOT_OH", "unknown"}

\* struct phm_reg as the driver looks at it: reg is PHN_CONTROL, another
\* register below 8, or a number above 7; value is its PHN_CTL_IRQ and
\* PHN_CTL_AMP bits
PhmReg ==
    [reg : {"PHN_CONTROL", "other", "beyond"}, irq : BOOLEAN, amp : BOOLEAN]
NoReg == [reg |-> "other", irq |-> FALSE, amp |-> FALSE]

\* a control word with no bit set
CtlZero == [irq |-> FALSE, amp |-> FALSE]

PhantomTask ==
    [pc |-> "idle", cmd |-> "none", r |-> NoReg, ret |-> Ok(0), mask |-> {}]

\* the device after phantom_probe: dev->status is 0, the file is not open,
\* the board is reset; hw_ctl is the board's control register
phantom_Init ==
    /\ phantom_dev = [status |-> {}, opened |-> 0, regs_lock |-> NoProc,
                      ctl_reg |-> CtlZero, hw_ctl |-> CtlZero, counter |-> 0]
    /\ ph_task = [p \in Proc |-> PhantomTask]

\* phantom_status: starting resets the counter and writes PHN_CTL_IRQ to the
\* control register, stopping writes the interrupt control of the bridge
\* only; dev->status = newstat
phantom_status(d, newstat) ==
    IF PHB_RUNNING \notin d.status /\ PHB_RUNNING \in newstat
    THEN [d EXCEPT !.counter = 0, !.hw_ctl = [irq |-> TRUE, amp |-> FALSE],
                   !.status = newstat]
    ELSE [d EXCEPT !.status = newstat]

\* a process holds a reference to the open file: it has opened or inherited
\* it and not closed it (a system call in progress keeps its reference)
ph_holds(p) == ph_task[p].pc \notin {"idle", "ret_closed"}

\* open(2): phantom_open, under phantom_mutex and dev->open_lock; a signal
\* can end the wait for open_lock
phantom_open(p) ==
    /\ ph_task[p].pc = "idle"
    /\ UNCHANGED phantom_frame
    /\ \E signal \in BOOLEAN :
          IF signal
          THEN /\ ph_task' = [ph_task EXCEPT ![p].pc = "ret_closed",
                                 ![p].ret = Err("ERESTARTSYS")]
               /\ UNCHANGED phantom_dev
          ELSE IF phantom_dev.opened # 0
          THEN /\ ph_task' = [ph_task EXCEPT ![p].pc = "ret_closed",
                                 ![p].ret = Err("EINVAL")]
               /\ UNCHANGED phantom_dev
          ELSE /\ ph_task' = [ph_task EXCEPT ![p].pc = "ret_open",
                                 ![p].ret = Ok(0)]
               /\ phantom_dev' = [phantom_dev EXCEPT !.counter = 0,
                                     !.opened = @ + 1]

\* fork(2) or the passing of the descriptor: another process gets a
\* reference to the open file, and phantom_open is not called
ph_fork(p, q) ==
    /\ ph_task[p].pc = "open"
    /\ ph_task[q].pc = "idle"
    /\ UNCHANGED phantom_frame
    /\ ph_task' = [ph_task EXCEPT ![q].pc = "open"]
    /\ UNCHANGED phantom_dev

\* phantom_release, under dev->open_lock
phantom_release(d) ==
    LET stopped == phantom_status([d EXCEPT !.opened = 0],
                       d.status \ {PHB_RUNNING})
    IN  [stopped EXCEPT !.status = @ \ {PHB_NOT_OH}]

\* close(2): the kernel calls phantom_release when the last reference to the
\* file goes
phantom_close(p) ==
    /\ ph_task[p].pc = "open"
    /\ UNCHANGED phantom_frame
    /\ ph_task' = [ph_task EXCEPT ![p].pc = "ret_closed", ![p].ret = Ok(0)]
    /\ phantom_dev' = IF \E q \in Proc \ {p} : ph_holds(q)
                      THEN phantom_dev
                      ELSE phantom_release(phantom_dev)

\* what phantom_ioctl does before it takes dev->regs_lock: the copy of the
\* argument, the test of r.reg, the whole of PHN_GET_REG, the default case
phantom_ioctl_entry(cmd, r, fault) ==
    CASE cmd \in {"PHN_SET_REG", "PHN_GET_REG"} /\ fault -> Err("EFAULT")
      [] cmd \in {"PHN_SET_REGS", "PHN_GET_REGS"} /\ fault -> Err("EFAULT")
      [] cmd \in {"PHN_SET_REG", "PHN_GET_REG"} /\ r.reg = "beyond" ->
            Err("EINVAL")
      [] cmd = "unknown" -> Err("ENOTTY")
      [] OTHER -> Ok(0)

\* ioctl(2): phantom_ioctl up to spin_lock_irqsave(&dev->regs_lock), or to
\* its end for a call that does not take the lock
phantom_ioctl_call(p) ==
    /\ ph_task[p].pc = "open"
    /\ UNCHANGED phantom_frame
    /\ \E cmd \in PhCmds, r \in PhmReg, fault \in BOOLEAN :
          LET res == phantom_ioctl_entry(cmd, r, fault)
              rr == IF cmd = "PHN_SET_REG" /\ res = Ok(0) THEN r ELSE NoReg
          IN  /\ cmd # "PHN_SET_REG" => r = NoReg
              /\ ph_task' = [ph_task EXCEPT ![p] =
                    [pc |-> IF res = Ok(0) /\ cmd # "PHN_GET_REG"
                            THEN "ph_lock" ELSE "ret_open",
                     cmd |-> cmd, r |-> rr, ret |-> res, mask |-> {}]]
    /\ UNCHANGED phantom_dev

\* spin_lock_irqsave(&dev->regs_lock, flags)
phantom_ioctl_lock(p) ==
    /\ ph_task[p].pc = "ph_lock"
    /\ phantom_dev.regs_lock = NoProc
    /\ UNCHANGED phantom_frame
    /\ ph_task' = [ph_task EXCEPT ![p].pc = "ph_body"]
    /\ phantom_dev' = [phantom_dev EXCEPT !.regs_lock = p]

\* PHN_SET_REG under the lock: a write of PHN_CONTROL with PHN_CTL_IRQ starts
\* the device, the amp bit is kept in not-OH mode, the value goes to the
\* board, a write of PHN_CONTROL without PHN_CTL_IRQ stops the device
phantom_set_reg(d, r) ==
    LET control == r.reg = "PHN_CONTROL"
        d1 == IF control /\ r.irq
              THEN phantom_status(d, d.status \cup {PHB_RUNNING}) ELSE d
        keep == control /\ PHB_NOT_OH \in d1.status
        value == [irq |-> r.irq,
                  amp |-> IF keep THEN d1.ctl_reg.amp ELSE r.amp]
        d2 == IF keep THEN [d1 EXCEPT !.ctl_reg = value] ELSE d1
        d3 == IF control THEN [d2 EXCEPT !.hw_ctl = value] ELSE d2
    IN  IF control /\ ~r.irq
        THEN phantom_status(d3, d3.status \ {PHB_RUNNING}) ELSE d3

\* PHN_NOT_OH granted whatever the status
phantom_not_oh_refused_never(status) == FALSE

\* PHN_NOT_OH: if (dev->status & PHB_RUNNING)
phantom_not_oh_refused(status) == PHB_RUNNING \in status

\* PHN_NOT_OH under the lock
phantom_not_oh(d) ==
    IF phantom_not_oh_refused(d.status)
    THEN d
    ELSE [d EXCEPT !.status = @ \cup {PHB_NOT_OH}]

\* the part of phantom_ioctl under dev->regs_lock, the unlock, and the end of
\* the call; the values of the registers other than the control register are
\* left out
phantom_ioctl_body(p) ==
    /\ ph_task[p].pc = "ph_body"
    /\ UNCHANGED phantom_frame
    /\ LET t == ph_task[p]
           d == phantom_dev
           d1 == CASE t.cmd = "PHN_SET_REG" -> phantom_set_reg(d, t.r)
                   [] t.cmd = "PHN_GET_REGS" -> [d EXCEPT !.counter = 0]
                   [] t.cmd = "PHN_NOT_OH" -> phantom_not_oh(d)
                   [] OTHER -> d
       IN  /\ phantom_dev' = [d1 EXCEPT !.regs_lock = NoProc]
           /\ \E fault \in BOOLEAN :
                 /\ fault => t.cmd = "PHN_GET_REGS"
                 /\ ph_task' = [ph_task EXCEPT ![p].pc = "ret_open",
                       ![p].ret =
                          IF t.cmd = "PHN_NOT_OH"
                             /\ phantom_not_oh_refused(d.status)
                          THEN Err("EINVAL")
                          ELSE IF fault THEN Err("EFAULT") ELSE Ok(0)]

\* poll(2): phantom_poll
phantom_poll(p) ==
    /\ ph_task[p].pc = "open"
    /\ UNCHANGED phantom_frame
    /\ ph_task' = [ph_task EXCEPT ![p].pc = "ret_open", ![p].cmd = "poll",
          ![p].mask =
             IF PHB_RUNNING \notin phantom_dev.status THEN {"EPOLLERR"}
             ELSE IF phantom_dev.counter # 0 THEN {"EPOLLIN", "EPOLLRDNORM"}
             ELSE {}]
    /\ UNCHANGED phantom_dev

\* phantom_isr, on an interrupt of the board (PHN_CTL_IRQ set in its control
\* register), under dev->regs_lock: in not-OH mode the amp bit of
\* dev->ctl_reg is toggled and the word written to the board
phantom_isr ==
    /\ phantom_dev.regs_lock = NoProc
    /\ phantom_dev.hw_ctl.irq
    /\ phantom_dev.counter < MaxEvents
    /\ UNCHANGED phantom_frame
    /\ LET d == phantom_dev
           ctl == [d.ctl_reg EXCEPT !.amp = ~@]
       IN  phantom_dev' =
              IF PHB_NOT_OH \in d.status
              THEN [d EXCEPT !.ctl_reg = ctl, !.hw_ctl = ctl,
                             !.counter = @ + 1]
              ELSE [d EXCEPT !.counter = @ + 1]
    /\ UNCHANGED ph_task

\* the system call returns
ph_ret_to_user(p) ==
    /\ ph_task[p].pc \in {"ret_open", "ret_closed"}
    /\ UNCHANGED phantom_frame
    /\ ph_task' = [ph_task EXCEPT ![p] =
          [PhantomTask EXCEPT !.pc =
              IF ph_task[p].pc = "ret_open" THEN "open" ELSE "idle"]]
    /\ UNCHANGED phantom_dev

phantom_Next ==
    \/ \E p \in Proc : phantom_open(p)
    \/ \E p, q \in Proc : ph_fork(p, q)
    \/ \E p \in Proc : phantom_close(p)
    \/ \E p \in Proc : phantom_ioctl_call(p)
    \/ \E p \in Proc : phantom_ioctl_lock(p)
    \/ \E p \in Proc : phantom_ioctl_body(p)
    \/ \E p \in Proc : phantom_poll(p)
    \/ phantom_isr
    \/ \E p \in Proc : ph_ret_to_user(p)

(***************************************************************************)
(*                             Specifications                              *)
(***************************************************************************)
vars == <<pipe_vars, single_vars, uid_vars, wuid_vars, priv_vars, scull_vars,
         decomp_vars, scullp_vars, config_smp, ioctl_vars, sleepy_vars,
         short_vars, hello_vars, nbtest_vars, phantom_vars, dev_nodes>>

\* the device nodes of the module
DevNodes ==
    {"scull", "scullp", "scullpipe", "scullwuid", "sleepy", "short"}

\* the state of every device after module load, every node in use
DevicesInit ==
    /\ pipe_Init /\ ubytes = {0}
    /\ single_Init /\ uid_Init /\ wuid_Init /\ priv_Init
    /\ scull_Init
    /\ ioctl_Init
    /\ scullp_Init
    /\ phantom_Init
    /\ nbtest_Init
    /\ hello_Init
    /\ short_Init
    /\ sleepy_Init
    /\ dev_nodes = DevNodes

\* bare scull used by one process, whose writes supply two byte values, with
\* allocations and user copies that can fail
scull_env_one ==
    sc_env = [users |-> {"p1"}, modes |-> FModes, bytes |-> {1, 2},
              faults |-> TRUE]

\* bare scull used by two processes that open it for reading and writing,
\* whose writes supply one byte value, with allocations and user copies that
\* succeed
scull_env_rdwr ==
    sc_env = [users |-> Proc, modes |-> {{FMODE_READ, FMODE_WRITE}},
              bytes |-> {1}, faults |-> FALSE]

\* bare scull used by two processes, whose writes supply one byte value (the
\* driver never looks at the value of a byte), with allocations and user
\* copies that succeed; a read-only open is left out, it does what a
\* read-write open followed by reads alone does
scull_env_two ==
    sc_env = [users |-> Proc, modes |-> FModes \ {{FMODE_READ}}, bytes |-> {1},
              faults |-> FALSE]

\* scullp loaded with scullp_order = 0 and used by one process, with
\* allocations and user copies that can fail
scullp_env_one ==
    sp_env = [users |-> {"p1"}, modes |-> FModes, bytes |-> {1},
              faults |-> TRUE, order |-> 0, counts |-> 0 .. MaxCount]

\* scullp loaded with scullp_order = 0 and used by two processes, with
\* allocations and user copies that succeed
scullp_env_two ==
    sp_env = [users |-> Proc, modes |-> FModes \ {{FMODE_READ}}, bytes |-> {1},
              faults |-> FALSE, order |-> 0, counts |-> 0 .. MaxCount]

\* ioctl called by one process at a time, with any command number
ioctl_env_one == io_env = [users |-> {"p1"}, cmds |-> IoCmds]

\* ioctl called by two processes at once, with the commands that write
\* scull_quantum: set, tell, exchange and shift
ioctl_env_two ==
    io_env = [users |-> Proc,
              cmds |-> {SCULL_IOCSQUANTUM, SCULL_IOCTQUANTUM,
                        SCULL_IOCXQUANTUM, SCULL_IOCHQUANTUM}]

\* scullp loaded with scullp_order = 1 and used by two processes, with
\* allocations and user copies that succeed
scullp_env_map ==
    sp_env = [users |-> Proc,
              modes |-> {{FMODE_WRITE}, {FMODE_READ, FMODE_WRITE}},
              bytes |-> {1}, faults |-> FALSE, order |-> 1,
              counts |-> {MaxCount}]

\* scullp loaded with scullp_order = 0 and used by one process
scullp_env_map0 ==
    sp_env = [users |-> {"p1"}, modes |-> FModes, bytes |-> {1},
              faults |-> FALSE, order |-> 0, counts |-> 0 .. MaxCount]

\* every device after module load, on a kernel whose spin_lock takes a real
\* lock
Init ==
    /\ scull_env_two /\ scullp_env_two
    /\ DevicesInit
    /\ ioctl_env_one
    /\ decomp_none
    /\ config_smp = TRUE

\* scullpipe with writers that supply one byte value (the driver never looks
\* at the value of a byte)
SpecPipe == Init /\ [][pipe_Next]_vars

\* scullsingle
SpecSingle == Init /\ [][single_Next]_vars

\* sculluid
SpecUid == Init /\ [][uid_Next]_vars

\* scullpriv
SpecPriv == Init /\ [][priv_Next]_vars

\* scullwuid, on either kind of kernel build
InitAnyBuild ==
    /\ scull_env_two /\ scullp_env_two
    /\ DevicesInit
    /\ ioctl_env_one
    /\ decomp_none
    /\ config_smp \in BOOLEAN

SpecWuid == InitAnyBuild /\ [][wuid_Next]_vars

\* bare scull, under either use of the device
InitScull ==
    /\ scull_env_one \/ scull_env_two
    /\ scullp_env_two
    /\ DevicesInit
    /\ ioctl_env_one
    /\ decomp_none
    /\ config_smp = TRUE

SpecScull == InitScull /\ [][scull_Next]_vars

\* scullp, under either use of the device
InitScullp ==
    /\ scull_env_two
    /\ scullp_env_one \/ scullp_env_two
    /\ DevicesInit
    /\ ioctl_env_one
    /\ decomp_none
    /\ config_smp = TRUE

SpecScullp == InitScullp /\ [][scullp_Next]_vars

\* scullp with mmap, loaded with scullp_order 0 or 1
InitMmap ==
    /\ scull_env_two
    /\ scullp_env_map0 \/ scullp_env_map
    /\ DevicesInit
    /\ ioctl_env_one
    /\ decomp_none
    /\ config_smp = TRUE

SpecMmap == InitMmap /\ [][scullp_mmap_Next]_vars

\* the devices that have a mutex: the processes use one of scull, scullp and
\* scullpipe, each under every use of it
MutexInit ==
    /\ \/ /\ dev_nodes = {"scull"}
          /\ scull_env_one \/ scull_env_rdwr
          /\ scullp_env_two
       \/ /\ dev_nodes = {"scullp"}
          /\ scull_env_two
          /\ scullp_env_one \/ scullp_env_two
       \/ /\ dev_nodes = {"scullpipe"}
          /\ scull_env_two
          /\ scullp_env_two
    /\ pipe_Init /\ ubytes = {0}
    /\ single_Init /\ uid_Init /\ wuid_Init /\ priv_Init
    /\ scull_Init
    /\ ioctl_Init
    /\ scullp_Init
    /\ phantom_Init
    /\ nbtest_Init
    /\ hello_Init
    /\ short_Init
    /\ sleepy_Init
    /\ ioctl_env_one
    /\ decomp_none
    /\ config_smp = TRUE

mutex_Next == scull_Next \/ scullp_Next \/ pipe_locking_Next

SpecMutex == MutexInit /\ [][mutex_Next]_vars

\* the ioctl method of bare scull
SpecIoctl == Init /\ [][ioctl_Next]_vars

\* scull_ioctl called by two processes at once
InitIoctlTwo ==
    /\ scull_env_two /\ scullp_env_two
    /\ DevicesInit
    /\ ioctl_env_two
    /\ decomp_none
    /\ config_smp = TRUE

SpecIoctlTwo == InitIoctlTwo /\ [][ioctl_Next]_vars

\* nbtest on a scullpipe device that another process feeds with the bytes
\* 1 .. NbBytes; no signals, no failing user copies
InitNbtest ==
    /\ dev_nodes = {"scullpipe"}
    /\ scull_env_two
    /\ scullp_env_two
    /\ pipe_Init /\ ubytes = 1 .. NbBytes
    /\ single_Init /\ uid_Init /\ wuid_Init /\ priv_Init
    /\ scull_Init
    /\ ioctl_Init
    /\ scullp_Init
    /\ phantom_Init
    /\ nbtest_Init
    /\ hello_Init
    /\ short_Init
    /\ sleepy_Init
    /\ ioctl_env_one
    /\ decomp_none
    /\ config_smp = TRUE

SpecNbtest == InitNbtest /\ [][nbtest_Next]_vars

\* scullpipe between one writer and one reader, without signals
SpecWriterWait == Init /\ [][writer_wait_Next]_vars

\* the scheduler runs every runnable task: a step inside the driver that
\* stays possible is taken.  A task that waits for the mutex is on its wait
\* list and gets the mutex handed over, so it takes the mutex if the mutex
\* is free again and again.  Nothing obliges a process to make a system call.
writer_wait_fairness ==
    \A p \in Proc :
       /\ WF_vars(scull_p_open_body(p))
       /\ WF_vars(scull_p_release_body(p))
       /\ WF_vars(scull_p_read_check(p))
       /\ WF_vars(scull_p_read_wait(p))
       /\ WF_vars(scull_p_read_sched(p))
       /\ WF_vars(scull_p_read_wake(p))
       /\ WF_vars(scull_p_write_space(p))
       /\ WF_vars(scull_getwritespace_prepare(p))
       /\ WF_vars(scull_getwritespace_retest(p))
       /\ WF_vars(scull_getwritespace_schedule(p))
       /\ WF_vars(scull_getwritespace_finish(p))
       /\ WF_vars(scull_p_write_wake(p))
       /\ SF_vars(scull_p_open_lock(p))
       /\ SF_vars(scull_p_release_lock(p))
       /\ SF_vars(scull_p_read_lock(p))
       /\ SF_vars(scull_p_write_lock(p))

\* scullpipe between one writer and one reader under that scheduling
SpecWriterWaitFair == SpecWriterWait /\ writer_wait_fairness

\* the hello device
SpecHello == Init /\ [][hello_Next]_vars

\* sleepy
SpecSleepy == Init /\ [][sleepy_Next]_vars

\* the devices whose methods sleep interruptibly, one of them in use:
\* sleepy, short, scullwuid (on either kind of kernel build) or scullpipe
InitSleepers ==
    /\ dev_nodes \in {{"sleepy"}, {"short"}, {"scullwuid"}, {"scullpipe"}}
    /\ scull_env_two
    /\ scullp_env_two
    /\ pipe_Init /\ ubytes = {0}
    /\ single_Init /\ uid_Init /\ wuid_Init /\ priv_Init
    /\ scull_Init
    /\ ioctl_Init
    /\ scullp_Init
    /\ phantom_Init
    /\ nbtest_Init
    /\ hello_Init
    /\ short_Init_any
    /\ sleepy_Init
    /\ ioctl_env_one
    /\ decomp_none
    /\ config_smp \in (IF dev_nodes = {"scullwuid"} THEN BOOLEAN ELSE {TRUE})

sleepers_Next == sleepy_Next \/ short_Next \/ wuid_Next \/ pipe_locking_Next

SpecSleepers == InitSleepers /\ [][sleepers_Next]_vars

\* the interrupt-fed device of short, loaded with any handler
InitShort ==
    /\ dev_nodes = {"short"}
    /\ scull_env_two
    /\ scullp_env_two
    /\ pipe_Init /\ ubytes = {0}
    /\ single_Init /\ uid_Init /\ wuid_Init /\ priv_Init
    /\ scull_Init
    /\ ioctl_Init
    /\ scullp_Init
    /\ phantom_Init
    /\ nbtest_Init
    /\ hello_Init
    /\ short_Init_any
    /\ sleepy_Init
    /\ ioctl_env_one
    /\ decomp_none
    /\ config_smp = TRUE

SpecShort == InitShort /\ [][short_Next]_vars

\* the phantom device used by two processes
SpecPhantom == Init /\ [][phantom_Next]_vars

\* sleepy, with every process that can run running in the end: a woken
\* reader is scheduled, and a method that has started finishes
SpecSleepyFair ==
    /\ Init
    /\ [][sleepy_Next]_vars
    /\ \A p \in Proc :
          /\ WF_vars(sleepy_read_woken(p))
          /\ WF_vars(sleepy_read_clear(p))
          /\ WF_vars(sl_ret_to_user(p))

\* the decomposition functions applied to any argument
InitDecomp ==
    /\ scull_env_two /\ scullp_env_two
    /\ DevicesInit
    /\ ioctl_env_one
    /\ decomp_Init
    /\ config_smp = TRUE

SpecDecomp == InitDecomp /\ [][decomp_Next]_vars

(***************************************************************************)
(*                          Claims about scullpipe                         *)
(***************************************************************************)
\* wp advanced by one byte, wrapping at the end of the buffer
NextWp == IF dev.wp + 1 = dev.end THEN 0 ELSE dev.wp + 1
FreeNow == spacefree(dev.rp, dev.wp, dev.buffersize)

ContiguousRun == IF dev.wp > dev.rp THEN dev.wp - dev.rp ELSE dev.end - dev.rp

\* C2: a scull_p_read without O_NONBLOCK that found the buffer empty gets a
\* byte count only after a scull_p_write has stored at least one byte, and
\* the count it then returns is min(count, contiguous readable run).
C2_BlockingReadHandshake ==
    [][\A p \in Proc :
          (task[p].pc = "r_check" /\ task'[p].pc = "r_wake" /\ hist[p].mustwait)
          => /\ ~hist[p].nonblock
             /\ hist[p].stored
             /\ task'[p].ret = Ok(Min(task'[p].count, ContiguousRun))]_vars

\* C2 witness: a blocking read that found the buffer empty has returned fewer
\* bytes than it asked for, and at least one
C2_Witness ==
    \E p \in Proc :
        /\ task[p].pc = "ret_idle" /\ hist[p].op = "read"
        /\ hist[p].mustwait /\ ~hist[p].nonblock
        /\ task[p].ret.err = "OK"
        /\ task[p].ret.n >= 1 /\ task[p].ret.n < task[p].count

C4_NonblockingReadEmpty ==
    [][\A p \in Proc :
          (task[p].pc = "r_check" /\ task'[p].pc # "r_check"
             /\ dev.rp = dev.wp /\ hist'[p].nonblock)
          => /\ task'[p].pc = "ret_idle"
             /\ task'[p].ret = Err("EAGAIN")
             /\ task'[p].tstate = "RUNNING"
             /\ p \notin dev'.inq
             /\ dev'.lock = NoProc
             /\ dev'.rp = dev.rp /\ dev'.wp = dev.wp
             /\ mem' = mem]_vars

\* C4 witness: a non-blocking read has returned -EAGAIN
C4_Witness ==
    \E p \in Proc :
        /\ task[p].pc = "ret_idle" /\ hist[p].op = "read"
        /\ hist[p].mustwait /\ hist[p].nonblock
        /\ task[p].ret = Err("EAGAIN")

\* the process holds an open file that scull_p_open has counted and
\* scull_p_release has not yet uncounted
Counted(p) == task[p].pc \notin {"closed", "o_lock", "o_body", "ret_closed"}

s_returned(p) == s_task[p].pc \in {"opened", "ret_closed"}

\* C6: under every interleaving of scull_s_open and scull_s_release at most
\* one successful open is outstanding, and a scull_s_open that ran entirely
\* while one open was outstanding has returned -EBUSY.
C6_SingleOpenExclusion ==
    /\ Cardinality(s_holders) <= 1
    /\ \A p \in Tasks :
          (s_returned(p) /\ s_task[p].during # {})
          => s_task[p].ret = Err("EBUSY")

\* C6 witness: an open that ran entirely while another task held the device
\* has returned -EBUSY
C6_Witness ==
    \E p \in Tasks :
        /\ s_task[p].pc = "ret_closed"
        /\ s_task[p].during # {} /\ s_task[p].during \subseteq s_holders
        /\ s_task[p].ret = Err("EBUSY")

\* C7: in every interleaving, a scull_s_open issued when no successful open
\* is outstanding (also after the holder's scull_s_release, also when other
\* tasks' failing opens overlap that release) is admitted: it returns 0.
C7_OpenAdmittedWhenFree ==
    \A p \in Tasks :
        (s_returned(p) /\ s_task[p].free_at_entry) => s_task[p].ret = Ok(0)

\* C8: scull_u_open returns -EBUSY, without waiting, exactly when
\* scull_u_count > 0 and scull_u_owner differs from the caller's uid and euid
\* and the caller lacks CAP_DAC_OVERRIDE; every other open succeeds and
\* increments scull_u_count; scull_u_owner becomes the caller's uid exactly
\* on the opens that take the count from 0 to 1.
C8_UidOpenDecision ==
    [][\A p \in UidTasks :
          (u_task[p].pc = "u_body" /\ u_task'[p].pc # "u_body")
          => LET c == u_task[p].cred
                 busy == /\ scull_u_count > 0
                         /\ scull_u_owner # c.uid
                         /\ scull_u_owner # c.euid
                         /\ ~c.cap
             IN IF busy
                THEN /\ u_task'[p].pc = "ret_closed"
                     /\ u_task'[p].ret = Err("EBUSY")
                     /\ scull_u_count' = scull_u_count
                     /\ scull_u_owner' = scull_u_owner
                ELSE /\ u_task'[p].pc = "opened"
                     /\ u_task'[p].ret = Ok(0)
                     /\ scull_u_count' = scull_u_count + 1
                     /\ scull_u_owner' = IF scull_u_count = 0 THEN c.uid
                                         ELSE scull_u_owner]_vars

\* C8 witness: a second user's open has been refused while the first opener,
\* whose uid was recorded, holds the device; the refused task runs with an
\* effective uid different from its uid
C8_Witness ==
    \E p, q \in UidTasks :
        /\ u_task[p].pc = "opened" /\ scull_u_count = 1
        /\ scull_u_owner = u_task[p].cred.uid
        /\ u_task[q].pc = "ret_closed" /\ u_task[q].ret = Err("EBUSY")
        /\ u_task[q].cred.uid # u_task[q].cred.euid

\* the open call of the task has returned
w_returned(p) == w_task[p].pc \in {"opened", "ret_closed"}

\* C9: while a task of uid A holds scullwuid open, a scull_w_open with
\* O_NONBLOCK by a task whose uid and euid differ from A and which lacks
\* CAP_DAC_OVERRIDE fails with -EAGAIN.
C9_NonblockingOpenRefused ==
    \A b \in UidTasks :
        (/\ w_returned(b) /\ w_task[b].nonblock /\ ~w_task[b].cred.cap
         /\ w_task[b].during # {})
        => w_task[b].ret = Err("EAGAIN")

\* C10: while a task of uid A holds scullwuid open, a blocking scull_w_open
\* by a task of a different uid without CAP_DAC_OVERRIDE does not return
\* until A has released; it then succeeds and scull_w_owner is B's uid.
C10_BlockingOpenWaitsForRelease ==
    \A b \in UidTasks :
        (/\ w_returned(b) /\ ~w_task[b].nonblock /\ ~w_task[b].cred.cap
         /\ w_task[b].heldby # {} /\ w_task[b].ret.err # "ERESTARTSYS")
        => /\ w_task[b].during = {}
           /\ w_task[b].ret = Ok(0)
           /\ scull_w_owner = w_task[b].cred.uid

\* the list holds at most one item per key and no device twice
c_list_unique ==
    \A i, j \in 1 .. Len(scull_c_list) :
        i # j => /\ scull_c_list[i].key # scull_c_list[j].key
                 /\ scull_c_list[i].dev # scull_c_list[j].dev

\* every task that holds scullpriv open has the device of the list item of
\* its controlling terminal
c_opened_own_device ==
    \A p \in Tasks :
        c_task[p].pc = "opened"
        => \E i \in 1 .. Len(scull_c_list) :
              /\ scull_c_list[i].key = c_task[p].tty
              /\ scull_c_list[i].dev = c_task[p].private_data

Written == {f \in 0 .. MaxPos - 1 : shadow[f] # NoByte}

\* process p returns from scull_read in this step
sc_read_returns(p) ==
    sc_task[p].pc = "rd_body" /\ sc_task'[p].pc = "ret_idle"

\* C12: on a freshly trimmed device filled by writes that each began at or
\* below the device size, the size is the number of bytes written (they lie
\* at the offsets 0 .. size - 1), and a scull_read at an offset below the
\* size never fails for want of data: it returns the bytes last written at
\* its offset and the following ones, in order, at least one of them when
\* it is asked for one, and moves the file position past them; so N bytes
\* written from offset 0 are read back from offset 0, and the size is N.
C12_WriteReadRoundTrip ==
    [][ /\ contig' =>
            /\ scull_dev'.size = Cardinality(Written')
            /\ \A f \in 0 .. scull_dev'.size - 1 : shadow'[f] \in sc_env.bytes
        /\ \A p \in Proc :
            (contig /\ sc_read_returns(p)
                /\ sc_task[p].f_pos < scull_dev.size) =>
               LET f == sc_task[p].f_pos
                   t == sc_task'[p]
               IN  /\ t.ret.err \in {"OK", "EFAULT"}
                   /\ t.ret.err = "OK" =>
                        /\ t.ret.n = Len(t.rbuf)
                        /\ t.ret.n <= t.count
                        /\ t.count > 0 => t.ret.n > 0
                        /\ \A i \in 1 .. t.ret.n : t.rbuf[i] = shadow[f + i - 1]
                        /\ t.f_pos = f + t.ret.n
                   /\ t.ret.err = "EFAULT" => t.f_pos = f
      ]_vars

\* four bytes 1 2 2 1 were written from offset 0; a read-only open has read
\* the first two and its second read has just returned the last two
C12_Witness ==
    /\ contig
    /\ scull_dev.size = 4
    /\ shadow = [f \in 0 .. MaxPos - 1 |-> IF f \in {0, 3} THEN 1 ELSE 2]
    /\ \E p \in Proc :
          /\ sc_task[p].pc = "ret_idle"
          /\ sc_task[p].f_mode = {FMODE_READ}
          /\ sc_task[p].rbuf = <<2, 1>>
          /\ sc_task[p].ret = Ok(2)
          /\ sc_task[p].f_pos = 4

\* process p runs scull_trim in this step (its write-only open)
sc_trims(p) ==
    /\ sc_task[p].pc = "closed"
    /\ sc_task'[p].pc # "closed"
    /\ sc_task'[p].f_mode = {FMODE_WRITE}

\* process p returns from scull_write in this step
sc_write_returns(p) ==
    sc_task[p].pc = "wr_body" /\ sc_task'[p].pc = "ret_idle"

Max(a, b) == IF a < b THEN b ELSE a

\* C13: a step that is not a trim never lowers dev->size; a scull_write that
\* returns a count n from file position f leaves the size at the larger of
\* its previous value and f + n, and a scull_write that returns an error
\* leaves it as it was.
C13_SizeNeverShrinks ==
    [][ /\ (\A p \in Proc : ~sc_trims(p)) => scull_dev'.size >= scull_dev.size
        /\ \A p \in Proc :
            sc_write_returns(p) =>
               IF sc_task'[p].ret.err = "OK"
               THEN /\ scull_dev'.size =
                          Max(scull_dev.size,
                              sc_task[p].f_pos + sc_task'[p].ret.n)
                    /\ sc_task'[p].f_pos = sc_task[p].f_pos + sc_task'[p].ret.n
               ELSE scull_dev'.size = scull_dev.size
      ]_vars

\* a write has just stored two bytes inside a device of four: it ended below
\* the size
C13_Witness ==
    \E p \in Proc :
       /\ sc_task[p].pc = "ret_idle"
       /\ sc_task[p].ret = Ok(2)
       /\ sc_task[p].rbuf = <<>>
       /\ sc_task[p].f_pos = 2
       /\ scull_dev.size = 4

\* the freshly trimmed device
sc_trimmed(d) ==
    /\ d.data = <<>>
    /\ d.size = 0
    /\ d.quantum = scull_quantum
    /\ d.qset = scull_qset

\* C14: every scull_trim (run by a write-only open) returns, has freed every
\* quantum, every array and every list node it found, and leaves the device
\* empty with size 0 and the default quantum and qset; a trim of a trimmed
\* device leaves it as it was.
C14_TrimFreesEverything ==
    [][ \A p \in Proc :
          sc_trims(p) =>
             LET t == sc_task'[p].trim
             IN  /\ sc_task'[p].pc = "ret_idle"
                 /\ t.quanta_freed = t.quanta
                 /\ t.arrays_freed = t.arrays
                 /\ t.nodes_freed = t.nodes
                 /\ sc_trimmed(scull_dev')
                 /\ sc_trimmed(scull_dev) => scull_dev' = scull_dev
      ]_vars

(***************************************************************************)
(*                     Claims about the decomposition                      *)
(***************************************************************************)
\* C15: the triple (item, s_pos, q_pos) that scull_read, scull_write,
\* scullp_read or scullp_write computes from a file position f, a quantum
\* size Q > 0 and an array length S > 0 satisfies
\* item * Q * S + s_pos * Q + q_pos = f, 0 <= s_pos < S and 0 <= q_pos < Q.
C15_DecompositionRecomposes ==
    dc_res.fn # "none" =>
       /\ dc_res.item * dc_arg.quantum * dc_arg.qset
             + dc_res.s_pos * dc_arg.quantum + dc_res.q_pos = dc_arg.f_pos
       /\ 0 <= dc_res.s_pos /\ dc_res.s_pos < dc_arg.qset
       /\ 0 <= dc_res.q_pos /\ dc_res.q_pos < dc_arg.quantum

(***************************************************************************)
(*                       Claims about the device mutex                     *)
(***************************************************************************)
\* the process is in user space, or a call of it has just returned
Returned(pc) == pc \in {"closed", "idle", "ret_idle", "ret_closed"}

policy_returned(pc) == pc \in {"closed", "opened", "ret_closed"}

\* C17: whenever an open or a release of sculluid, scullwuid or scullpriv
\* has returned to a task, on success or on failure, the task does not hold
\* the spinlock of that policy (scull_u_lock, scull_w_lock, scull_c_lock).
C17_SpinlockReleasedOnReturn ==
    /\ \A p \in UidTasks :
          /\ policy_returned(u_task[p].pc) => scull_u_lock # p
          /\ policy_returned(w_task[p].pc) => scull_w_lock # p
    /\ \A p \in Tasks :
          policy_returned(c_task[p].pc) => scull_c_lock # p

(***************************************************************************)
(*                      Claims about trim and the lock                     *)
(***************************************************************************)
\* C18: trim runs only under the lock of the device it trims: in no step
\* does an open of bare scull run scull_trim while another process is inside
\* the locked section of scull_read or scull_write on that device.
C18_TrimOnlyUnderLock ==
    [][\A p \in Proc : sc_trims(p) => sc_locked \ {p} = {}]_vars

(***************************************************************************)
(*                        Claims about scull ioctl                         *)
(***************************************************************************)
\* the commands that change a parameter from the caller's argument
PrivilegedCmds == {SCULL_IOCSQUANTUM, SCULL_IOCTQUANTUM, SCULL_IOCXQUANTUM,
                   SCULL_IOCHQUANTUM}

\* process p enters scull_ioctl in this step
io_calls(p) == io_task[p].pc = "idle" /\ io_task'[p].pc # "idle"

\* process p returns from scull_ioctl in this step
io_returns(p) == io_task[p].pc # "ret" /\ io_task'[p].pc = "ret"

\* the step leaves both parameters as they are
io_same == scull_quantum' = scull_quantum /\ scull_qset' = scull_qset

C20_ExchangeAndShift ==
    [][\A p \in Proc : io_returns(p) =>
          LET t == io_task'[p]
          IN  /\ (t.cmd = SCULL_IOCXQUANTUM /\ t.cap /\ t.ret = Ok(0))
                     => t.mem = t.p0 /\ scull_quantum' = t.val
              /\ (t.cmd = SCULL_IOCXQUANTUM /\ t.cap /\ t.ret # Ok(0))
                     => t.ret = Err("EFAULT")
              /\ (t.cmd = SCULL_IOCHQUANTUM /\ t.cap)
                     => t.ret = Ok(t.p0) /\ scull_quantum' = t.val]_vars

\* a shift has returned the old value, which differs from the new one
C20_Witness ==
    \E p \in Proc :
       /\ io_task[p].pc = "ret"
       /\ io_task[p].cmd = SCULL_IOCHQUANTUM
       /\ io_task[p].cap
       /\ io_task[p].ret = Ok(io_task[p].p0)
       /\ io_task[p].p0 # io_task[p].val
       /\ scull_quantum = io_task[p].val

(***************************************************************************)
(*                    scullp: mmap, page faults and trim                   *)
(***************************************************************************)
\* the step of p is the body of scullp_vma_nopage
sp_nopage_acts(p) ==
    sp_task[p].pc = "nf_body" /\ sp_task'[p].pc = "ret_idle"

\* the quantum and the page of it that scullp_read and scullp_write address
\* for the byte offset off of the device
sp_page_of(d, off) ==
    LET quantum == Shl(PAGE_SIZE, d.nodes[1].order)
        pos == scullp_read_pos(off, quantum, d.qset)
    IN  <<pos.item, pos.s_pos, pos.q_pos \div PAGE_SIZE>>

\* the quantum <<item, s_pos>> of the device is allocated
sp_quantum_allocated(d, item, s_pos) ==
    /\ item < Len(d.nodes)
    /\ d.nodes[item + 1].data # NULL
    /\ d.nodes[item + 1].data[s_pos + 1] # NULL

\* off lies below the size of the device and inside an allocated quantum
sp_offset_backed(d, off) ==
    /\ off < d.size
    /\ sp_quantum_allocated(d, sp_page_of(d, off)[1], sp_page_of(d, off)[2])

\* C21: on a device of order > 0 a fault at an offset inside an allocated
\* quantum installs the page of that quantum that read and write address
\* for the offset, with a reference taken; a fault at or beyond the size or
\* in a hole is a bus error; the mutex of the device is released in every
\* case
C21_FaultResolvesToQuantumPage ==
    [][\A p \in Proc :
         (sp_nopage_acts(p) /\ scullp_dev.nodes[1].order > 0) =>
            LET off == sp_vma'[p].vmf.off
            IN  /\ scullp_dev'.mutex = NoProc
                /\ IF sp_offset_backed(scullp_dev, off)
                   THEN /\ sp_task'[p].ret = Ok(0)
                        /\ sp_vma'[p].vmf.page = sp_page_of(scullp_dev, off)
                        /\ [vpage |-> off \div PAGE_SIZE,
                            page |-> sp_page_of(scullp_dev, off)]
                              \in sp_vma'[p].ptes
                   ELSE /\ sp_task'[p].ret = Err("VM_FAULT_SIGBUS")
                        /\ sp_vma'[p].ptes = sp_vma[p].ptes]_vars

\* the step of p is scullp_mmap, from its call to the refusal or to the
\* call of scullp_vma_open
sp_mmap_acts(p) ==
    sp_task[p].pc = "idle" /\ sp_task'[p].pc \in {"ret_idle", "mm_inc"}

sp_trim_acts(p) ==
    sp_task[p].pc = "po_body" /\ sp_task'[p].pc = "ret_idle"

\* the page a page table entry refers to is a page of the device
sp_page_held(d, e) == sp_quantum_allocated(d, e.page[1], e.page[2])

\* C23: with dev->vmas above zero scullp_trim returns -EBUSY, frees nothing
\* and leaves the size; and no page that a mapping of a process reaches
\* through a page table entry is freed by trim
C23_TrimSparesMappedPages ==
    [][\A p \in Proc :
         sp_trim_acts(p) =>
            /\ scullp_dev.vmas > 0 =>
                  /\ scullp_trim(scullp_dev).ret = Err("EBUSY")
                  /\ scullp_dev'.nodes = scullp_dev.nodes
                  /\ scullp_dev'.size = scullp_dev.size
            /\ \A q \in Proc : \A e \in sp_vma[q].ptes :
                  (sp_vma[q].n > 0 /\ sp_page_held(scullp_dev, e))
                     => sp_page_held(scullp_dev', e)]_vars

(***************************************************************************)
(*                     sleepy: the writer and the readers                  *)
(***************************************************************************)
\* the step of p is sleepy_write, from the call to the return
sl_write_acts(p) ==
    sl_task[p].pc = "idle" /\ sl_task'[p].pc = "ret"

\* sleepy_write is one step that waits for nothing, and returns a count it
\* was passed
sl_write_returns_count ==
    \A p \in Proc :
       sl_write_acts(p) => sl_task'[p].ret \in {Ok(n) : n \in 0 .. MaxCount}

\* C24 as stated: sleepy_write never blocks and returns the length it was
\* given, and every process that was asleep in sleepy_read when it ran
\* wakes and returns from its read
C24_WriteWakesAndReturnsReaders ==
    /\ [][sl_write_returns_count]_vars
    /\ \A p \in Proc : sl_task[p].woken ~> (sl_task[p].pc = "ret")

\* C24 amended: sleepy_write never blocks, returns the length it was given,
\* sets the flag and makes every process asleep in sleepy_read runnable; a
\* woken reader goes on to return only if it finds the flag still set when
\* it runs, and sleeps again if another reader has cleared it
C24_WriteWakesReaders ==
    [][/\ sl_write_returns_count
       /\ \A p \in Proc :
             sl_write_acts(p) =>
                /\ sleepy_flag' = 1
                /\ \A q \in Proc :
                      sl_task[q].pc = "rd_sleep" =>
                         sl_task'[q].pc = "rd_run" /\ sl_task'[q].woken
       /\ \A q \in Proc :
             sl_task[q].pc = "rd_run" =>
                sl_task'[q].pc \in
                   {"rd_run",
                    IF sleepy_flag # 0 THEN "rd_clear" ELSE "rd_sleep"}]_vars

\* a write has returned the largest length and the reader it found asleep
\* is runnable
C24_Witness ==
    \E p, q \in Proc :
       /\ sl_task[p].pc = "ret"
       /\ sl_task[p].ret = Ok(MaxCount)
       /\ sl_task[q].pc = "rd_run"
       /\ sl_task[q].woken
       /\ sleepy_flag = 1

(***************************************************************************)
(*                 Interruptible sleeps ended by a signal                  *)
(***************************************************************************)
\* scull_p_read: the wait for data ends with a signal pending and nothing
\* to read
sig_ends_p_read(p) ==
    /\ task[p].pc = "r_wait" /\ task[p].sig /\ dev.rp = dev.wp
    /\ task'[p].pc # task[p].pc

\* scull_getwritespace: the wait for space ends with a signal pending
sig_ends_getwritespace(p) ==
    /\ task[p].pc = "w_finish" /\ task[p].sig
    /\ task'[p].pc # task[p].pc

\* scull_w_open: the wait for the device ends with a signal pending and the
\* device not available
sig_ends_w_open(p) ==
    /\ w_task[p].pc = "w_wait" /\ w_task[p].sig
    /\ ~scull_w_available(w_task[p].cred)
    /\ w_task'[p].pc # w_task[p].pc

\* short_i_read: schedule() returns with a signal pending
sig_ends_short_i_read(p) ==
    /\ sh_task[p].pc = "sh_run" /\ sh_task[p].sig
    /\ sh_task'[p].pc # sh_task[p].pc

\* sleepy_read: wait_event_interruptible was ended by a signal
sig_ends_sleepy_read(p) ==
    /\ sl_task[p].pc = "rd_clear" /\ sl_task[p].sig
    /\ sl_task'[p].pc # sl_task[p].pc

\* the scullpipe methods return -ERESTARTSYS and leave the buffer and its
\* cursors
sig_restarts_pipe ==
    \A p \in Proc :
       (sig_ends_p_read(p) \/ sig_ends_getwritespace(p)) =>
          /\ task'[p].ret = Err("ERESTARTSYS")
          /\ task'[p].pc = "ret_idle"
          /\ dev'.rp = dev.rp /\ dev'.wp = dev.wp /\ mem' = mem

\* scull_w_open returns -ERESTARTSYS and leaves the owner and the count
sig_restarts_w_open ==
    \A p \in UidTasks :
       sig_ends_w_open(p) =>
          /\ w_task'[p].ret = Err("ERESTARTSYS")
          /\ scull_w_count' = scull_w_count
          /\ scull_w_owner' = scull_w_owner

\* short_i_read returns -ERESTARTSYS and leaves short_tail
sig_restarts_short ==
    \A p \in Proc :
       sig_ends_short_i_read(p) =>
          /\ sh_task'[p].ret = Err("ERESTARTSYS")
          /\ sh_task'[p].n = 0
          /\ short_tail' = short_tail

\* sleepy_read returns -ERESTARTSYS and leaves the flag
sig_restarts_sleepy ==
    \A p \in Proc :
       sig_ends_sleepy_read(p) =>
          /\ sl_task'[p].ret = Err("ERESTARTSYS")
          /\ sleepy_flag' = sleepy_flag

\* C25: scull_p_read, scull_getwritespace, scull_w_open, short_i_read and
\* sleepy_read, when a signal ends their sleep, return -ERESTARTSYS and
\* consume nothing: no data moves, and the flag or cursor waited for stays
C25_SignalRestartsSystemCall ==
    [][/\ sig_restarts_pipe
       /\ sig_restarts_w_open
       /\ sig_restarts_short
       /\ sig_restarts_sleepy]_vars

(***************************************************************************)
(*                       hello: one open at a time                         *)
(***************************************************************************)
\* the processes that hold the device open: hello_open has returned 0 to
\* them and their hello_release has not finished
hello_holders ==
    {p \in HelloProc : he_task[p].pc \in {"ret_open", "open", "hr_clear"}}

\* the step of p is hello_open, from the call to the test of is_open
hello_open_acts(p) ==
    he_task[p].pc = "closed" /\ he_task'[p].pc # "closed"

\* the step of p is hello_release, from the call to the test of is_open
hello_release_acts(p) ==
    he_task[p].pc = "open" /\ he_task'[p].pc # "open"

\* hello_open returns -EBUSY when the device is marked open; hello_release
\* returns -EBUSY when it is not, and clears the mark when it is
hello_calls_as_stated ==
    \A p \in HelloProc :
       /\ (hello_open_acts(p) /\ is_open = 1) =>
             he_task'[p] = [pc |-> "ret_closed", ret |-> Err("EBUSY")]
       /\ (hello_release_acts(p) /\ is_open = 0) =>
             he_task'[p] = [pc |-> "ret_closed", ret |-> Err("EBUSY")]
       /\ (he_task[p].pc = "hr_clear" /\ he_task'[p].pc # "hr_clear") =>
             is_open' = 0

\* C26: whatever the interleaving of hello_open and hello_release calls, at
\* most one open of the hello device is outstanding; hello_open returns
\* -EBUSY whenever the device is marked open, hello_release clears the mark,
\* and hello_release on a device not marked open returns -EBUSY
C26_HelloSingleOpen ==
    /\ [](Cardinality(hello_holders) <= 1)
    /\ [][hello_calls_as_stated]_vars

(***************************************************************************)
(*                  nbtest: the copy of the pipe's input                   *)
(***************************************************************************)
\* the bytes in the buffer of the pipe, oldest first
nb_in_pipe ==
    IF dev.buffersize = 0 THEN <<>>
    ELSE [i \in 1 .. ((dev.wp - dev.rp + dev.buffersize) % dev.buffersize) |->
             mem[(dev.rp + i - 1) % dev.buffersize]]

\* the bytes nbtest has read and not yet written: those of a read that is
\* returning, then those in its buffer
nb_in_hand ==
    IF nbt.pc = "write" THEN SubSeq(nbt.buffer, 1, nbt.n)
    ELSE IF nbt.pc = "read" /\ task[NbReader].pc \in {"r_wake", "ret_idle"}
    THEN task[NbReader].ubuf
    ELSE <<>>

\* the number of bytes the pipe has accepted, those of a write that is
\* returning included
nb_accepted ==
    feeder.fed + (IF feeder.pc = "feed"
                     /\ task[NbWriter].pc \in {"w_wake", "ret_idle"}
                  THEN task[NbWriter].ret.n ELSE 0)

\* C27: with nbtest reading a scullpipe device without blocking while a
\* writer feeds the input in pieces, what nbtest has written to its output,
\* followed by what it holds and by what is in the pipe, is the input
\* accepted so far, byte for byte: the output is the input in order, with
\* nothing lost or duplicated
C27_NbtestCopiesInput ==
    nbt.out \o nb_in_hand \o nb_in_pipe = SubSeq(NbInput, 1, nb_accepted)

\* nbtest has written the whole input, and one of its reads returned EAGAIN
C27_Witness ==
    /\ nbt.out = NbInput
    /\ nbt.eagain

(***************************************************************************)
(*                  scullpipe: what a write stores                         *)
(***************************************************************************)
\* the step of p is the part of scull_p_write from the count to
\* mutex_unlock, with copy_from_user successful
p_write_stores(p) ==
    task[p].pc = "w_space" /\ task'[p].pc = "w_wake"

\* the offsets of the bytes written and not yet read
p_unread == {(dev.rp + i) % dev.buffersize :
                i \in 0 .. ((dev.wp - dev.rp + dev.buffersize)
                                % dev.buffersize) - 1}

\* the contiguous run a write may fill: to the end of the buffer when wp is
\* not below rp, else to one byte before rp
p_write_run ==
    IF dev.wp >= dev.rp THEN dev.end - dev.wp ELSE dev.rp - dev.wp - 1

\* C28: a successful scull_p_write stores min(count, spacefree, contiguous
\* run) bytes at wp, overwrites no byte that is still unread and, when it
\* stores a byte, does not leave wp equal to rp
C28_WriteStoresRun ==
    [][\A p \in Proc :
         p_write_stores(p) =>
            LET c == task'[p].ret.n
                free == spacefree(dev.rp, dev.wp, dev.buffersize)
            IN  /\ c \in {task'[p].count, free, p_write_run}
                /\ c <= task'[p].count /\ c <= free /\ c <= p_write_run
                /\ \A i \in Offsets :
                      mem'[i] # mem[i] => (i >= dev.wp /\ i < dev.wp + c)
                /\ \A i \in p_unread : mem'[i] = mem[i]
                /\ \A i \in p_unread : ~(i >= dev.wp /\ i < dev.wp + c)
                /\ dev'.wp = (dev.wp + c) % dev.buffersize
                /\ dev'.rp = dev.rp
                /\ c >= 1 => dev'.wp # dev'.rp]_vars

\* a write has stored fewer bytes than it was given, up to the end of the
\* buffer, and wp is back at the start while unread bytes remain
C28_Witness ==
    \E p \in Proc :
       /\ task[p].pc = "w_wake"
       /\ task[p].ret.n >= 1
       /\ task[p].ret.n < task[p].count
       /\ dev.wp = 0
       /\ dev.rp # 0

(***************************************************************************)
(*                 scullpipe: the sleep of a blocking writer               *)
(***************************************************************************)
\* process w is inside the loop of scull_getwritespace: it found the buffer
\* full, released the mutex and has not yet gone back to the loop test
in_getwritespace(w) ==
    \/ task[w].pc \in {"w_prep", "w_retest", "w_sched", "w_finish"}
    \/ task[w].pc = "w_lock" /\ hist[w].mustwait

\* a reader has taken at least one byte out of the buffer, which has free
\* space since, and is about to call wake_up_interruptible(&dev->outq)
reader_freed(w) ==
    /\ spacefree(dev.rp, dev.wp, dev.buffersize) # 0
    /\ \E r \in Proc \ {w} :
          /\ task[r].pc = "r_wake"
          /\ task[r].ret.err = "OK"
          /\ task[r].ret.n > 0

\* the write of w has stored its bytes (after scull_getwritespace returned 0)
write_completed(w) == task[w].pc = "w_wake" /\ task[w].ret.err = "OK"

\* C29: a blocking writer that found the buffer full never misses a wake-up.
\* Wherever the writer is between releasing the mutex and schedule() when a
\* reader has freed at least one byte, the writer goes on to the loop test
\* of scull_getwritespace, which it always runs holding the mutex, and its
\* write stores bytes (no signals, fair scheduling).
C29_WriterNeverMissesWakeup ==
    /\ [](\A w \in Proc : task[w].pc = "w_space" => dev.lock = w)
    /\ \A w \in Proc :
          (in_getwritespace(w) /\ reader_freed(w)) ~> write_completed(w)

\* a writer asleep on dev->outq, in schedule(), while the reader that freed
\* bytes has not yet called wake_up_interruptible
C29_Witness ==
    \E w \in Proc :
       /\ task[w].pc = "w_sched"
       /\ task[w].tstate = "INTERRUPTIBLE"
       /\ w \in dev.outq
       /\ reader_freed(w)

(***************************************************************************)
(*              scull and scullp: a write that cannot allocate             *)
(***************************************************************************)
\* scull_write of p ran from the decomposition of *f_pos to its end
sc_write_acts(p) ==
    sc_task[p].pc = "wr_body" /\ sc_task'[p].pc # "wr_body"

\* scullp_write of p ran from the decomposition of *f_pos to its end
sp_write_acts(p) ==
    sp_task[p].pc = "wr_body" /\ sp_task'[p].pc # "wr_body"

\* the write of scull at f_pos was left without the list node, the array of
\* quantum pointers or the quantum it needed: an allocation failed
sc_write_lacks(data, f_pos, quantum, qset) ==
    LET pos == scull_write_pos(f_pos, quantum, qset)
    IN  \/ Len(data) <= pos.item
        \/ data[pos.item + 1].data = NULL
        \/ data[pos.item + 1].data[pos.s_pos + 1] = NULL

\* the same for scullp
sp_write_lacks(nodes, f_pos, qset) ==
    LET pos == scullp_write_pos(f_pos, Shl(PAGE_SIZE, nodes[1].order), qset)
    IN  \/ Len(nodes) <= pos.item
        \/ nodes[pos.item + 1].data = NULL
        \/ nodes[pos.item + 1].data[pos.s_pos + 1] = NULL

\* scull_write of p ended as the claim says
sc_write_enomem(p) ==
    /\ sc_task'[p].pc = "ret_idle"
    /\ sc_task'[p].ret = Err("ENOMEM")
    /\ scull_dev'.lock = NoProc
    /\ scull_dev'.size = scull_dev.size
    /\ sc_task'[p].f_pos = sc_task[p].f_pos

\* scullp_write of p ended as the claim says
sp_write_enomem(p) ==
    /\ sp_task'[p].pc = "ret_idle"
    /\ sp_task'[p].ret = Err("ENOMEM")
    /\ scullp_dev'.mutex = NoProc
    /\ scullp_dev'.size = scullp_dev.size
    /\ sp_task'[p].f_pos = sp_task[p].f_pos

\* C30 for scull_write alone
sc_write_fails_cleanly ==
    \A p \in Proc :
       (sc_write_acts(p)
           /\ sc_write_lacks(scull_dev'.data, sc_task[p].f_pos,
                             scull_dev.quantum, scull_dev.qset))
       => sc_write_enomem(p)

\* C30 for scullp_write alone
sp_write_fails_cleanly ==
    \A p \in Proc :
       (sp_write_acts(p)
           /\ sp_write_lacks(scullp_dev'.nodes, sp_task[p].f_pos,
                             scullp_dev.qset))
       => sp_write_enomem(p)

\* C30: when an allocation that scull_write or scullp_write needs fails (a
\* list node in the follow step, the array of quantum pointers, or the
\* quantum), the write returns -ENOMEM with the lock of the device released
\* and with the size of the device and the file offset as they were.
C30_WriteFailsWithEnomem ==
    [][sc_write_fails_cleanly /\ sp_write_fails_cleanly]_vars

(***************************************************************************)
(*                  short: the reader of the circular buffer               *)
(***************************************************************************)
\* the contiguous readable run: up to short_head when it is ahead of
\* short_tail, up to the end of the page when it has wrapped behind
short_run(head, tail) ==
    IF head > tail THEN head - tail ELSE SHORT_PAGE - tail

\* short_i_read of p found the buffer not empty and copied to the caller
short_i_read_copies(p) ==
    /\ sh_task[p].pc \in {"idle", "sh_run"}
    /\ sh_task'[p].pc = "sh_incr"

\* short_i_read of p moves short_tail and returns
short_i_read_returns(p) ==
    /\ sh_task[p].pc = "sh_incr"
    /\ sh_task'[p].pc = "ret"

\* C31: a successful short_i_read returns min(count, contiguous run), the
\* run being head - tail when head is ahead of tail and the rest of the page
\* when head has wrapped behind tail, so that it copies no byte beyond
\* short_head or beyond the page; it returns that amount and moves
\* short_tail by it, back to the start of the buffer at the page bound.
C31_ShortReadReturnsRun ==
    [][\A p \in Proc :
          /\ short_i_read_copies(p) =>
                sh_task'[p].n = Min(sh_task'[p].count,
                                    short_run(short_head, short_tail))
          /\ short_i_read_returns(p) =>
                /\ sh_task'[p].ret = Ok(sh_task[p].n)
                /\ short_tail + sh_task[p].n <= SHORT_PAGE
                /\ short_tail' = (short_tail + sh_task[p].n) % SHORT_PAGE]_vars

(***************************************************************************)
(*                 short: the writers of the circular buffer               *)
(***************************************************************************)
\* a step of short_do_tasklet formats the line of the bottom half
short_header_writes == sh_irq.pc = "idle" /\ sh_irq'.pc = "times"

\* a step of short_do_tasklet formats a record
short_times_writes == sh_irq.pc = "times" /\ sh_irq' # sh_irq

\* the text of length written at short_head lies inside the page, and
\* short_head is afterwards inside the page with room for one more record
short_fits(written) ==
    /\ short_head + written <= SHORT_PAGE
    /\ 0 <= short_head'
    /\ short_head' + SHORT_RECORD <= SHORT_PAGE

\* C32 for the handlers that write in interrupt context
short_handlers_fit ==
    (short_head' # short_head /\ sh_irq.handler \in {"direct", "shared"})
       => short_fits(SHORT_RECORD)

\* C32 for the bottom half
short_bottom_half_fits ==
    /\ short_header_writes => short_fits(SHORT_HEADER)
    /\ short_times_writes => short_fits(SHORT_RECORD)

\* C32: every text that the interrupt handlers and the bottom half format
\* into the circular buffer lies wholly inside the page of the buffer, and
\* after every advance short_head is inside the page and leaves room for
\* the next record before the page bound.
C32_RecordsInsidePage ==
    [][short_handlers_fit /\ short_bottom_half_fits]_vars

(***************************************************************************)
(*                scull_ioctl: exchange among concurrent calls             *)
(***************************************************************************)
\* the exchange of p stores its new value in scull_quantum
io_exchange_writes(p) ==
    io_task[p].pc = "x_get" /\ io_task'[p].pc = "x_put"

\* the shift of p stores its new value in scull_quantum
io_shift_writes(p) ==
    io_task[p].pc = "h_tell" /\ io_task'[p].pc = "ret"

\* C33: exchange (and shift) is atomic with respect to the other calls
\* that write the parameter: the old value a call hands back is the value
\* its own write replaces, so that the values returned and the value left
\* in scull_quantum are those of the calls run one after the other (two
\* exchanges never hand back the same old value unless a call in between
\* stored it).  Stated for a write that changes the parameter; one that
\* stores the value already there is the same in any order.
C33_ExchangeIsAtomic ==
    [][\A p \in Proc :
          ((io_exchange_writes(p) \/ io_shift_writes(p))
              /\ scull_quantum' # scull_quantum)
          => io_task[p].tmp = scull_quantum]_vars

(***************************************************************************)
(*                     Sleeping while holding a spinlock                   *)
(***************************************************************************)
\* the task is about to call kmalloc(..., GFP_KERNEL) in
\* scull_c_lookfor_device, which may sleep
c_may_sleep(p) == c_task[p].pc = "c_alloc"

\* the task is in wait_event_interruptible of scull_w_open
w_may_sleep(p) == w_task[p].pc \in {"w_wait", "w_sleep"}

\* C34: no task is at an operation that may sleep while it holds a
\* spinlock: not at the GFP_KERNEL allocation of the lookup-or-create of
\* scull_c_open with scull_c_lock, and not in the wait of scull_w_open with
\* scull_w_lock (scull_u_open has no operation that may sleep).
C34_NoSleepUnderSpinlock ==
    /\ \A p \in Tasks : c_may_sleep(p) => scull_c_lock # p
    /\ \A p \in UidTasks : w_may_sleep(p) => scull_w_lock # p

\* ---- C35 ----
\* the PHN_NOT_OH call of p completes under dev->regs_lock
ph_not_oh_acts(p) ==
    /\ phantom_ioctl_body(p)
    /\ ph_task[p].cmd = "PHN_NOT_OH"

\* a PHN_NOT_OH call that finds the device running returns -EINVAL and leaves
\* dev->status as it was
ph_not_oh_refusal ==
    \A p \in Proc :
       (ph_not_oh_acts(p) /\ PHB_RUNNING \in phantom_dev.status) =>
          /\ ph_task'[p].ret = Err("EINVAL")
          /\ phantom_dev'.status = phantom_dev.status

\* PHB_NOT_OH becomes set in this step
ph_not_oh_set ==
    /\ PHB_NOT_OH \notin phantom_dev.status
    /\ PHB_NOT_OH \in phantom_dev'.status

\* C35: a PHN_NOT_OH ioctl issued while the device is running returns -EINVAL
\* and leaves the status unchanged, and the not-OH flag is set only in a step
\* that starts with the device not running
C35_NotOhOnlyWhenStopped ==
    [][/\ ph_not_oh_refusal
       /\ ph_not_oh_set => PHB_RUNNING \notin phantom_dev.status]_vars

\* a PHN_NOT_OH call has just been refused on a running device, which is
\* still in OpenHaptics mode
C35_Witness ==
    \E p \in Proc :
       /\ ph_task[p].pc = "ret_open"
       /\ ph_task[p].cmd = "PHN_NOT_OH"
       /\ ph_task[p].ret = Err("EINVAL")
       /\ phantom_dev.status = {PHB_RUNNING}

\* ---- C36 ----
\* the bytes the device holds for its readers, oldest first: those from rp
\* up to wp, around the end of the buffer
p_pending(d, bytes) ==
    IF ~d.buffer THEN <<>>
    ELSE LET len == (d.wp - d.rp + d.buffersize) % d.buffersize
         IN  [i \in 1 .. len |-> bytes[(d.rp + i - 1) % d.buffersize]]

\* the handles open on the device
p_handles(d) == d.nreaders + d.nwriters

\* a write of p accepts bytes in this step, which go behind the bytes held
p_write_appends(p) ==
    /\ task[p].pc = "w_space" /\ task'[p].pc = "w_wake"
    /\ \E ub \in UserBufs(task'[p].ret.n) :
          p_pending(dev', mem') = p_pending(dev, mem) \o ub

\* a read of p returns bytes in this step, which are the oldest bytes held
p_read_takes(p) ==
    /\ task[p].pc = "r_check" /\ task'[p].pc = "r_wake"
    /\ p_pending(dev, mem) = task'[p].ubuf \o p_pending(dev', mem')

\* C36: while at least one handle stays open, the bytes returned by the
\* successful reads are a prefix of the bytes accepted by the successful
\* writes: in every step the bytes held stay as they are, or a write puts
\* the bytes it accepts behind them, or a read returns the oldest of them; a
\* further open with unread data buffered is such a step
C36_ReadsArePrefixOfWrites ==
    [][(p_handles(dev) > 0 /\ p_handles(dev') > 0) =>
          \/ p_pending(dev', mem') = p_pending(dev, mem)
          \/ \E p \in Proc : p_write_appends(p)
          \/ \E p \in Proc : p_read_takes(p)]_vars

\* ---- C37 ----
\* r sleeps in scull_p_read: on dev->inq, in schedule(), not made runnable
p_asleep_for_data(r) ==
    /\ task[r].pc = "r_sched"
    /\ task[r].tstate = "INTERRUPTIBLE"

\* w sleeps in scull_getwritespace: on dev->outq, in schedule(), not made
\* runnable
p_asleep_for_space(w) ==
    /\ task[w].pc = "w_sched"
    /\ task[w].tstate = "INTERRUPTIBLE"

\* C37: with one blocking reader and one blocking writer on a scullpipe
\* device, the reader is never asleep waiting for data while the writer is
\* asleep waiting for space (with both asleep no process is left to send a
\* wake-up)
C37_PairNeverDeadlocks ==
    ~(p_asleep_for_data("p2") /\ p_asleep_for_space("p1"))

\* ---- C38 ----
\* C38: while the buffer of a scullpipe device is allocated, both cursors lie
\* inside it: buffer <= rp < end and buffer <= wp < end (the cursors are
\* offsets from dev->buffer)
C38_CursorsInsideBuffer ==
    dev.buffer =>
       /\ 0 <= dev.rp /\ dev.rp < dev.end
       /\ 0 <= dev.wp /\ dev.wp < dev.end

\* a write has just stored bytes up to the end of the buffer and wrapped wp,
\* while rp stands at the last byte of the buffer
C38_Witness ==
    /\ dev.buffer
    /\ dev.wp = 0
    /\ dev.rp = dev.end - 1
    /\ \E p \in Proc : task[p].pc = "w_wake" /\ task[p].ret.n > 0

\* ---- C39 ----
\* no open or release of sculluid / scullwuid is in progress
u_completed == \A p \in UidTasks : u_task[p].pc \in {"closed", "opened"}
w_completed == \A p \in UidTasks : w_task[p].pc \in {"closed", "opened"}

\* the successful opens not yet released
u_open_handles == Cardinality({p \in UidTasks : u_task[p].pc = "opened"})
w_open_handles == Cardinality({p \in UidTasks : w_task[p].pc = "opened"})

\* scull_u_count counts the open handles of sculluid
u_count_exact ==
    u_completed => (scull_u_count = u_open_handles /\ scull_u_count >= 0)

\* scull_w_count counts the open handles of scullwuid
w_count_exact ==
    w_completed => (scull_w_count = w_open_handles /\ scull_w_count >= 0)

\* C39: once the opens and releases of sculluid and of scullwuid have
\* completed, the open count of the policy equals the number of successful
\* opens not yet released; it is never negative, and zero exactly when no
\* handle is open
C39_CountEqualsOpenHandles == u_count_exact /\ w_count_exact

\* ---- C40 ----
\* the device apart from its mutex: the list and its nodes, arrays and
\* pages, the stored bytes, the geometry, the size and the mapping count
sp_device(d) == [d EXCEPT !.mutex = NoProc]

\* C40: scullp_read changes nothing on the device: whatever the file offset
\* (an offset equal to the size included) the call allocates no list node,
\* array or page and leaves the size, the list and the stored bytes as they
\* were; only the mutex and the caller's file offset change
C40_ReadChangesNothing ==
    [][\A p \in Proc :
          scullp_read_body(p) => sp_device(scullp_dev') = sp_device(scullp_dev)]_vars

====
